---- MODULE Spec2Model ----
(***************************************************************************)
(* A model of the LLM gateway's request pipeline: the authentication gate  *)
(* with its replica-local cache, the proxy router, the billing ledger and  *)
(* the admin mutations that race with them.                                *)
(*                                                                         *)
(* Money is counted in micro-USD (1e-6 USD), the precision the code rounds *)
(* to (round(total_cost, 6)); a rate in USD per million tokens is then a   *)
(* number of micro-USD per token and cost = tokens * rate is exact.        *)
(*                                                                         *)
(* The sources hold two generations of handlers: the proxy generation      *)
(* (api/routes.py, proxy/router.py, billing/billing_manager.py,            *)
(* database/repositories.py, cache/cache_manager.py) and the endpoint      *)
(* generation (endpoints/openai.py, database/operations.py,                *)
(* utils/cost_calculator.py).  Each generation reads the price fields by   *)
(* its own names; the model gives each the rate it names.                  *)
(***************************************************************************)
EXTENDS Integers, Sequences, FiniteSets, TLC

(* ---------------------------------------------------------------- bounds *)
MaxRequests == 2
MaxAdminOps == 1

Requests == 1..MaxRequests
\* The full pipeline is explored for two concurrent clients; the ledger
\* specifications run every request of Requests
Clients == {1, 2}
Replicas == {"rep1"}
Users == {"u1", "u2"}
Keys == {"k1", "k2", "kx"}
ModelNames == {"m1", "m2"}
Endpoints == {"/v1/chat/completions", "/v1/messages"}

VARIABLES
    accounts,    \* store collection "accounts": user_id -> document
    apikeys,     \* store collection "apikeys": key string -> document
    modelcosts,  \* store collection "modelcosts": model_name -> document
    usagelogs,   \* store collection "usagelogs", grouped by originating request
    cache,       \* per replica: the TTLCache of CacheManager
    channel,     \* per replica: invalidation messages published, not yet received
    req,         \* per request: the handler's position and locals
    adminOps,    \* number of admin mutations performed
    spent0,      \* spent_usd of u1 in the initial state
    deactivated, \* u1 has been inactive at some time
    raised,      \* u1's budget_usd has been raised at some time
    relay,       \* per request: the state of its streaming generators
    listener     \* per replica: whether its invalidation listener task runs

vars == <<accounts, apikeys, modelcosts, usagelogs, cache, channel, req,
          adminOps, spent0, deactivated, raised, relay, listener>>

(* ------------------------------------------------------------- documents *)
NoRec == [found |-> FALSE]

AccountDoc(uid, active, budget, spent) ==
    [found |-> TRUE, user_id |-> uid, is_active |-> active,
     budget_usd |-> budget, spent_usd |-> spent]

\* allowed_models is Optional[List[str]]: None, or a list (possibly empty)
AllowedNone == [isNone |-> TRUE, list |-> {}]
AllowedList(s) == [isNone |-> FALSE, list |-> s]

ApiKeyDoc(k, uid, active, allowed) ==
    [found |-> TRUE, api_key |-> k, user_id |-> uid, is_active |-> active,
     allowed_models |-> allowed]

ModelCostDoc(m, ri, ro, rc, rw) ==
    [found |-> TRUE, model_name |-> m, input_rate |-> ri, output_rate |-> ro,
     cached_rate |-> rc, cache_write_rate |-> rw]

\* A usage dict as the ledger reads it; a key the dict lacks reads as the
\* default of usage_data.get
UsageDict(i, o, cr, cw, t) ==
    [input_tokens |-> i, output_tokens |-> o, cached_tokens |-> cr,
     cache_creation_tokens |-> cw, total_tokens |-> t, is_cache_hit |-> FALSE]

NoUsage == UsageDict(0, 0, 0, 0, 0)

(* ------------------------------------------------------------- requests *)
\* The Authorization header a client may send: absent, a non-Bearer scheme,
\* "Bearer " with nothing after it, or "Bearer <key>".
Headers ==
    {[present |-> FALSE, bearer |-> FALSE, key |-> ""],
     [present |-> TRUE, bearer |-> FALSE, key |-> "k1"],
     [present |-> TRUE, bearer |-> TRUE, key |-> ""]}
    \cup {[present |-> TRUE, bearer |-> TRUE, key |-> k] : k \in Keys}

InitReq ==
    [pc |-> "new", gen |-> "none", replica |-> "rep1", key |-> "",
     keyObj |-> NoRec, account |-> NoRec, loaded |-> NoRec, user_id |-> "",
     model |-> "", endpoint |-> "", stream |-> FALSE,
     usage |-> NoUsage, cost |-> 0, success |-> FALSE,
     status |-> 0, reason |-> "", error |-> "",
     upstream |-> 0, billed |-> 0, debited |-> 0, debitInactive |-> FALSE,
     \* what the store held when the request began, what its gate read
     inactive0 |-> FALSE, over0 |-> FALSE, sawInactive |-> FALSE,
     fromStore |-> FALSE]

\* A handler that has returned: its locals are gone, what remains is the
\* response status and the record of what the request did
Finish(rq, st) ==
    [InitReq EXCEPT !.pc = "done", !.gen = rq.gen, !.status = st,
                    !.reason = rq.reason, !.upstream = rq.upstream,
                    !.billed = rq.billed, !.debited = rq.debited,
                    !.debitInactive = rq.debitInactive,
                    !.sawInactive = rq.sawInactive, !.over0 = rq.over0,
                    !.fromStore = rq.fromStore]

(* ------------------------------------------------------- pure functions *)
is_over_budget_strict(a) == a.spent_usd > a.budget_usd

\* Account.is_over_budget
is_over_budget(a) == a.spent_usd >= a.budget_usd

\* ApiKey.is_model_allowed
is_model_allowed(k, m) ==
    IF ~k.is_active THEN FALSE
    ELSE IF k.allowed_models.isNone THEN TRUE
    ELSE m \in k.allowed_models.list

\* extract_api_key: the key string, or a 401
extract_api_key(hdr) ==
    IF ~hdr.present THEN [ok |-> FALSE, key |-> ""]
    ELSE IF ~hdr.bearer THEN [ok |-> FALSE, key |-> ""]
    ELSE IF hdr.key = "" THEN [ok |-> FALSE, key |-> ""]
    ELSE [ok |-> TRUE, key |-> hdr.key]

(* ---------------------------------------------------------------- cache *)
CacheKeys ==
    {<<"apikey", k>> : k \in Keys} \cup {<<"account", u>> : u \in Users}
    \cup {<<"modelcost", m>> : m \in ModelNames}

\* CacheManager._get_from_cache: the entry, or None
GetFromCache(c, ck) == c[ck]

\* A read that never populates the cache
SetToCache_never(c, ck, doc) == c

\* CacheManager._set_to_cache, reached only when the loaded object is truthy
SetToCache(c, ck, doc) == IF doc.found THEN [c EXCEPT ![ck] = doc] ELSE c

(* ----------------------------------------------------------------- gate *)
Reject(st, why) ==
    [pc |-> "done", status |-> st, reason |-> why, account |-> NoRec]

Admitted(g) == g.pc \notin {"done"}

GateFromAccount_nobudget(acct) ==
    IF ~acct.found THEN Reject(403, "account_missing")
    ELSE IF ~acct.is_active THEN
        [Reject(403, "account_inactive") EXCEPT !.account = acct]
    ELSE [pc |-> "route", status |-> 0, reason |-> "", account |-> acct]

\* get_authenticated_user from the account object on: lines 53-71
GateFromAccount(acct) ==
    IF ~acct.found THEN Reject(403, "account_missing")
    ELSE IF ~acct.is_active THEN
        [Reject(403, "account_inactive") EXCEPT !.account = acct]
    ELSE IF is_over_budget(acct) THEN
        [Reject(429, "over_budget") EXCEPT !.account = acct]
    ELSE [pc |-> "route", status |-> 0, reason |-> "", account |-> acct]

GateFromKey_nocheck(c, keyObj) ==
    IF ~keyObj.found THEN Reject(401, "invalid_key")
    ELSE LET cached == GetFromCache(c, <<"account", keyObj.user_id>>)
         IN  IF cached.found THEN GateFromAccount(cached)
             ELSE [pc |-> "acct_load", status |-> 0, reason |-> "",
                   account |-> NoRec]

\* get_authenticated_user from the key object on: lines 42-52, then
\* CacheManager.get_account up to its cache lookup
GateFromKey(c, keyObj) ==
    IF ~keyObj.found THEN Reject(401, "invalid_key")
    ELSE IF ~keyObj.is_active THEN Reject(403, "key_inactive")
    ELSE LET cached == GetFromCache(c, <<"account", keyObj.user_id>>)
         IN  IF cached.found THEN GateFromAccount(cached)
             ELSE [pc |-> "acct_load", status |-> 0, reason |-> "",
                   account |-> NoRec]

\* Whether a record that was read is an inactive one
Inactive(doc) == doc.found /\ ~doc.is_active

ApplyGate(rq, keyObj, g) ==
    LET seen == [rq EXCEPT !.sawInactive =
                    @ \/ Inactive(keyObj) \/ Inactive(g.account)]
    IN  IF Admitted(g)
        THEN [seen EXCEPT !.pc = g.pc, !.keyObj = keyObj,
                          !.account = g.account, !.loaded = NoRec]
        ELSE [Finish([seen EXCEPT !.reason = g.reason], g.status)
                EXCEPT !.account = g.account]

\* The store's view of the presented key when the request begins: its key
\* or owning account is inactive; its account is active and a debit has
\* left it at or over its budget
StoreAccountOf(key) ==
    IF key \in Keys /\ apikeys[key].found
    THEN accounts[apikeys[key].user_id] ELSE NoRec

StoreInactive(key) ==
    /\ key \in Keys
    /\ Inactive(apikeys[key]) \/ Inactive(StoreAccountOf(key))

StoreOverBudget(key) ==
    LET a == StoreAccountOf(key)
    IN  /\ a.found /\ a.is_active /\ apikeys[key].is_active
        /\ a.spent_usd > spent0
        /\ is_over_budget(a)

Begin(rq, rep, key) ==
    [rq EXCEPT !.replica = rep, !.key = key,
               !.inactive0 = StoreInactive(key),
               !.over0 = StoreOverBudget(key)]

\* extract_api_key, then get_authenticated_user up to the first store read
AuthenticateWith(r, HS) ==
    /\ req[r].pc = "new"
    /\ \A q \in Requests : q < r => req[q].pc # "new"
    /\ \E hdr \in HS, rep \in Replicas :
        LET x == extract_api_key(hdr)
            rq == [Begin(req[r], rep, x.key) EXCEPT !.gen = "proxy"]
            cached == GetFromCache(cache[rep], <<"apikey", x.key>>)
        IN  req' = [req EXCEPT ![r] =
                IF ~x.ok THEN Finish([rq EXCEPT !.reason = "header"], 401)
                ELSE IF cached.found THEN
                    ApplyGate(rq, cached, GateFromKey(cache[rep], cached))
                ELSE [rq EXCEPT !.pc = "key_load"]]
    /\ UNCHANGED <<relay, accounts, apikeys, modelcosts, usagelogs, cache, channel,
                   adminOps, spent0, deactivated, raised, listener>>

Authenticate(r) == AuthenticateWith(r, Headers)

\* ApiKeyRepository.get_by_api_key: the store read of a cache miss
KeyLoad(r) ==
    /\ req[r].pc = "key_load"
    /\ req' = [req EXCEPT ![r].pc = "key_loaded", ![r].loaded = apikeys[req[r].key]]
    /\ UNCHANGED <<relay, accounts, apikeys, modelcosts, usagelogs, cache, channel,
                   adminOps, spent0, deactivated, raised, listener>>

\* CacheManager.get_api_key after the read: cache the key, run the key checks
KeyLoaded(r) ==
    /\ req[r].pc = "key_loaded"
    /\ LET rep == req[r].replica
           keyObj == req[r].loaded
           c == SetToCache(cache[rep], <<"apikey", req[r].key>>, keyObj)
       IN  /\ cache' = [cache EXCEPT ![rep] = c]
           /\ req' = [req EXCEPT ![r] = ApplyGate(req[r], keyObj, GateFromKey(c, keyObj))]
    /\ UNCHANGED <<relay, accounts, apikeys, modelcosts, usagelogs, channel,
                   adminOps, spent0, deactivated, raised, listener>>

\* AccountRepository.get_by_user_id: the store read of a cache miss
AcctLoad(r) ==
    /\ req[r].pc = "acct_load"
    /\ req' = [req EXCEPT ![r].pc = "acct_loaded",
                          ![r].loaded = accounts[req[r].keyObj.user_id]]
    /\ UNCHANGED <<relay, accounts, apikeys, modelcosts, usagelogs, cache, channel,
                   adminOps, spent0, deactivated, raised, listener>>

\* CacheManager.get_account after the read: cache the account, run the checks
AcctLoaded(r) ==
    /\ req[r].pc = "acct_loaded"
    /\ LET rep == req[r].replica
           acct == req[r].loaded
           c == SetToCache(cache[rep], <<"account", req[r].keyObj.user_id>>, acct)
       IN  /\ cache' = [cache EXCEPT ![rep] = c]
           /\ req' = [req EXCEPT ![r] =
                        ApplyGate([req[r] EXCEPT !.fromStore = TRUE],
                                  req[r].keyObj, GateFromAccount(acct))]
    /\ UNCHANGED <<relay, accounts, apikeys, modelcosts, usagelogs, channel,
                   adminOps, spent0, deactivated, raised, listener>>

(* --------------------------------------------------------------- router *)
\* LiteLLMClient.get_provider_from_endpoint
get_provider_from_endpoint(ep) ==
    IF ep \in {"/v1/chat/completions", "/v1/responses"} THEN "openai"
    ELSE IF ep = "/v1/messages" THEN "anthropic"
    ELSE "openai"

\* What an upstream reports for a completed call, and how it fails
Usages == {NoUsage, UsageDict(1, 1, 0, 0, 2)}
UpstreamErrors == {"rate_limit", "other"}

\* The dict the Anthropic handlers hand to the ledger: UsageData.__dict__
UsageDataDict(u) ==
    UsageDict(u.input_tokens, u.output_tokens, u.cached_tokens,
              u.cache_creation_tokens, u.input_tokens + u.output_tokens)

\* What a non-2xx answer of the upstream raises in the driver: the text of
\* the exception, named by the upstream's status and what its body says
UpstreamAnswers ==
    {"429 rate_limit", "429", "401 invalid key", "401", "400", "404", "503"}
UpstreamStatus(e) ==
    IF e \in {"429 rate_limit", "429"} THEN 429
    ELSE IF e \in {"401 invalid key", "401"} THEN 401
    ELSE IF e = "400" THEN 400
    ELSE IF e = "404" THEN 404
    ELSE 503

\* "rate_limit" in str(e).lower(); "invalid" in it and "key" in it
MentionsRateLimit(e) == e \in {"rate_limit", "429 rate_limit"}
MentionsInvalidKey(e) == e = "401 invalid key"

\* route_request's mapping of the exception text to the client status
ErrorStatus(e) ==
    IF MentionsRateLimit(e) THEN 429
    ELSE IF MentionsInvalidKey(e) THEN 401
    ELSE 500

DenyModel_forward(sent) ==
    [sent EXCEPT !.pc = "upstream", !.upstream = @ + 1,
                 !.reason = "model_denied"]

\* require_model_access raises AuthorizationError inside route_request's
\* try block: control passes to the except block, nothing is forwarded
DenyModel(sent) ==
    [sent EXCEPT !.pc = "fail_log", !.error = "access_denied",
                 !.reason = "model_denied"]

\* ProxyRouter.route_request from its entry to the upstream dispatch
RouteWith(r, ES, MS, SS) ==
    /\ req[r].pc = "route"
    /\ \E ep \in ES, m \in MS, st \in SS :
        LET rq == [req[r] EXCEPT !.endpoint = ep, !.model = m, !.stream = st,
                                 !.user_id = req[r].account.user_id]
            sent == [rq EXCEPT !.keyObj = NoRec, !.account = NoRec,
                               !.over0 = FALSE, !.fromStore = FALSE]
            provider == get_provider_from_endpoint(ep)
        IN  req' = [req EXCEPT ![r] =
                IF m = "" THEN
                    Finish([rq EXCEPT !.reason = "model_required"], 400)
                ELSE IF ~is_model_allowed(rq.keyObj, m) THEN
                    DenyModel(sent)
                ELSE IF provider = "anthropic" /\ st THEN
                    \* forward_messages returns the generator unstarted
                    [sent EXCEPT !.pc = "streaming"]
                ELSE [sent EXCEPT !.pc = "upstream", !.upstream = @ + 1]]
    /\ UNCHANGED <<relay, accounts, apikeys, modelcosts, usagelogs, cache, channel,
                   adminOps, spent0, deactivated, raised, listener>>

Route(r) == RouteWith(r, Endpoints, ModelNames \cup {""}, BOOLEAN)

\* process_usage_and_bill is entered with the usage to bill; the handler's
\* other locals are not read again
EnterBilling(rq, u) ==
    [rq EXCEPT !.pc = "bill_price", !.usage = u, !.billed = @ + 1,
               !.endpoint = "", !.stream = FALSE]

\* The awaited upstream call returns: litellm.acompletion, or
\* AnthropicProvider._handle_non_streaming_request
UpstreamWith(r, US, XS) ==
    /\ req[r].pc = "upstream"
    /\ \E u \in US, e \in XS \cup {""} :
        req' = [req EXCEPT ![r] =
            IF e # "" THEN
                [@ EXCEPT !.pc = "fail_log", !.error = e]
            ELSE IF req[r].stream THEN [@ EXCEPT !.pc = "streaming"]
            ELSE IF get_provider_from_endpoint(req[r].endpoint) = "anthropic"
                 THEN EnterBilling(@, UsageDataDict(u))
            ELSE EnterBilling(@, u)]
    /\ UNCHANGED <<relay, accounts, apikeys, modelcosts, usagelogs, cache, channel,
                   adminOps, spent0, deactivated, raised, listener>>

Upstream(r) == UpstreamWith(r, Usages, UpstreamErrors)

(* -------------------------------------------------------------- billing *)
\* CostCalculator._calculate_token_cost, in micro-USD
calculate_token_cost(tokens, rate) == IF tokens <= 0 THEN 0 ELSE tokens * rate

calculate_cost_flat(doc, usage) ==
    calculate_token_cost(usage.input_tokens, 1)
    + calculate_token_cost(usage.output_tokens, 1)

\* CostCalculator.calculate_cost: total_cost_usd for a price document.
\* The sum is a whole number of micro-USD, so round(total_cost, 6) is it;
\* cache_creation_tokens is not read
calculate_cost(doc, usage) ==
    IF ~doc.found THEN 0
    ELSE calculate_token_cost(usage.input_tokens, doc.input_rate)
         + calculate_token_cost(usage.output_tokens, doc.output_rate)
         + (IF usage.is_cache_hit \/ usage.cached_tokens > 0
            THEN calculate_token_cost(usage.cached_tokens, doc.cached_rate)
            ELSE 0)

\* utils CostCalculator.calculate_cost of the endpoint generation, called
\* with is_cache_hit = cache_read_tokens > 0: no guard on the token
\* counts, no rounding
legacy_calculate_cost(doc, usage) ==
    IF ~doc.found THEN 0
    ELSE usage.input_tokens * doc.input_rate
         + usage.output_tokens * doc.output_rate
         + usage.cache_creation_tokens * doc.cache_write_rate
         + usage.cached_tokens * doc.cached_rate

\* What follows the price lookup: process_usage_and_bill debits only a
\* positive cost; the endpoint handlers call increment_spent with any cost
AfterPrice(rq, doc) ==
    IF rq.gen = "endpoint"
    THEN [rq EXCEPT !.cost = legacy_calculate_cost(doc, rq.usage),
                    !.model = "", !.pc = "l_spend"]
    ELSE LET c == calculate_cost(doc, rq.usage)
         IN  [rq EXCEPT !.cost = c, !.model = "",
                        !.pc = IF c > 0 THEN "bill_spend" ELSE "bill_log"]

\* A cache read that loads from the store on a miss and populates the entry
ReadThrough(c, ck, stored) ==
    IF GetFromCache(c, ck).found THEN [doc |-> GetFromCache(c, ck), cache |-> c]
    ELSE [doc |-> stored, cache |-> SetToCache(c, ck, stored)]

\* process_usage_and_bill lines 38-46: calculate_cost with its price lookup
\* through CacheManager.get_model_cost (price documents are not mutated
\* here, so the lookup's store read is taken in the same step)
BillPrice(r) ==
    /\ req[r].pc = "bill_price"
    /\ LET rep == req[r].replica
           m == req[r].model
           got == ReadThrough(cache[rep], <<"modelcost", m>>, modelcosts[m])
       IN  /\ cache' = [cache EXCEPT ![rep] = got.cache]
           /\ req' = [req EXCEPT ![r] = AfterPrice(@, got.doc)]
    /\ UNCHANGED <<relay, accounts, apikeys, modelcosts, usagelogs, channel,
                   adminOps, spent0, deactivated, raised, listener>>

atomic_spend_any(accts, uid, amount) ==
    IF accts[uid].found
    THEN [accts EXCEPT ![uid].spent_usd = @ + amount]
    ELSE accts

atomic_spend_set(accts, uid, amount) ==
    IF accts[uid].found /\ accts[uid].is_active
    THEN [accts EXCEPT ![uid].spent_usd = amount]
    ELSE accts

\* AccountRepository.atomic_spend: update_one({user_id, is_active: True},
\* {$inc: {spent_usd: amount}})
atomic_spend(accts, uid, amount) ==
    IF accts[uid].found /\ accts[uid].is_active
    THEN [accts EXCEPT ![uid].spent_usd = @ + amount]
    ELSE accts

\* process_usage_and_bill lines 49-50: the conditional debit
BillSpend(r) ==
    /\ req[r].pc = "bill_spend"
    /\ LET uid == req[r].user_id
           after == atomic_spend(accounts, uid, req[r].cost)
           ok == after # accounts
       IN  /\ accounts' = after
           /\ req' = [req EXCEPT ![r].success = ok,
                        ![r].pc = IF ok THEN "bill_inval" ELSE "bill_log",
                        ![r].debited = @ + (after[uid].spent_usd - accounts[uid].spent_usd),
                        ![r].debitInactive =
                            @ \/ (ok /\ ~accounts[uid].is_active)]
    /\ UNCHANGED <<relay, apikeys, modelcosts, usagelogs, cache, channel,
                   adminOps, spent0, deactivated, raised, listener>>

\* CacheManager.publish_invalidation: one message to every subscriber
Publish(ch, msg) == [rep \in Replicas |-> Append(ch[rep], msg)]

\* process_usage_and_bill line 64: invalidate_account after a debit
BillInvalidate(r) ==
    /\ req[r].pc = "bill_inval"
    /\ channel' = Publish(channel, <<"account", req[r].user_id>>)
    /\ req' = [req EXCEPT ![r].pc = "bill_log"]
    /\ UNCHANGED <<relay, accounts, apikeys, modelcosts, usagelogs, cache,
                   adminOps, spent0, deactivated, raised, listener>>

\* The UsageLog process_usage_and_bill (lines 67-86) and log_failed_request
\* (lines 130-146) create
UsageLogDoc(rq, cost, err) ==
    [user_id |-> rq.user_id,
     is_cache_hit |-> IF err = "" THEN rq.usage.is_cache_hit ELSE FALSE,
     input_tokens |-> IF err = "" THEN rq.usage.input_tokens ELSE 0,
     output_tokens |-> IF err = "" THEN rq.usage.output_tokens ELSE 0,
     cached_tokens |-> IF err = "" THEN rq.usage.cached_tokens ELSE 0,
     total_tokens |-> IF err = "" THEN rq.usage.total_tokens ELSE 0,
     cost_usd |-> cost, error_message |-> err]

\* process_usage_and_bill lines 67-95: UsageLogRepository.create_log
BillLog(r) ==
    /\ req[r].pc = "bill_log"
    /\ usagelogs' = [usagelogs EXCEPT ![r] =
                        Append(@, UsageLogDoc(req[r], req[r].cost, ""))]
    /\ req' = [req EXCEPT ![r] = Finish(@, 200)]
    /\ UNCHANGED <<relay, accounts, apikeys, modelcosts, cache, channel,
                   adminOps, spent0, deactivated, raised, listener>>

\* route_request's except block: BillingManager.log_failed_request, then
\* the error response
FailLog(r) ==
    /\ req[r].pc = "fail_log"
    /\ usagelogs' = [usagelogs EXCEPT ![r] =
                        Append(@, UsageLogDoc(req[r], 0, req[r].error))]
    /\ req' = [req EXCEPT ![r] = Finish(@, ErrorStatus(req[r].error))]
    /\ UNCHANGED <<relay, accounts, apikeys, modelcosts, cache, channel,
                   adminOps, spent0, deactivated, raised, listener>>

(* ------------------------------------------------------------ streaming *)
\* Whitespace-separated word counts of the text a stream delivered
WordCounts == {0, 1}

\* How a streamed response reaches its terminal disposition
StreamOutcomes == {"end", "error", "abort", "open_fail"}

\* _handle_post_stream_billing lines 135-166: the wrapper's usage when a
\* chunk exposed the wrapper and it carries one, else the word-count estimate
PostStreamUsage(hasWrapper, u, w) ==
    LET got == IF hasWrapper THEN u ELSE NoUsage
    IN  IF got.total_tokens = 0
        THEN [got EXCEPT !.output_tokens = (w * 13) \div 10,
                         !.total_tokens = got.input_tokens + (w * 13) \div 10]
        ELSE got

\* StreamingResponseHandler.handle_stream.stream_with_billing: the chunks
\* are relayed, then the finally block bills, on every way out of the loop
\* (exhaustion, an exception of the stream, GeneratorExit on disconnect);
\* the way out does not change what the finally block does
StreamOpenAI(r) ==
    /\ req[r].pc = "streaming"
    /\ get_provider_from_endpoint(req[r].endpoint) = "openai"
    /\ \E o \in StreamOutcomes \ {"open_fail"}, hasWrapper \in BOOLEAN,
          u \in Usages, w \in WordCounts :
        req' = [req EXCEPT ![r] =
            EnterBilling(@, PostStreamUsage(hasWrapper, u, w))]
    /\ UNCHANGED <<relay, accounts, apikeys, modelcosts, usagelogs, cache, channel,
                   adminOps, spent0, deactivated, raised, listener>>

\* Whether billing_wrapper reaches the code after its relay loop: it does
\* when stream_generator is exhausted (end of stream, or a read error that
\* breaks the read loop), not when stream_generator raises on a non-200
\* answer nor when the client disconnects inside the loop
billing_wrapper_bills(o) == o \in {"end", "error"}

\* ProxyRouter._handle_anthropic_streaming_response.billing_wrapper over
\* AnthropicProvider._handle_streaming_request.stream_generator
StreamAnthropic(r) ==
    /\ req[r].pc = "streaming"
    /\ get_provider_from_endpoint(req[r].endpoint) = "anthropic"
    /\ \E o \in StreamOutcomes, u \in Usages :
        req' = [req EXCEPT ![r] =
            IF billing_wrapper_bills(o)
            THEN EnterBilling([@ EXCEPT !.upstream = @ + 1],
                              UsageDataDict(u))
            ELSE Finish([@ EXCEPT !.reason = o, !.upstream = @ + 1], 200)]
    /\ UNCHANGED <<relay, accounts, apikeys, modelcosts, usagelogs, cache, channel,
                   adminOps, spent0, deactivated, raised, listener>>

(* ------------------------------------------------------ streaming relay *)
\* Largest number of events (Anthropic) or chunks (LiteLLM) of one stream
MaxEvents == 3

\* The usage object of an Anthropic event: the keys it carries, their values
UsageBlock(has, i, o, cr, cw) ==
    [has |-> has, input_tokens |-> i, output_tokens |-> o,
     cache_read_input_tokens |-> cr, cache_creation_input_tokens |-> cw]
NoBlock == UsageBlock({}, 0, 0, 0, 0)

\* dict.get(k, d) on a usage object
Get(u, k, d) == IF k \in u.has THEN u[k] ELSE d

\* The payload of a data line as json.loads takes it (json: "object", or
\* "invalid" for text that does not parse, or "value" for a document that
\* is not an object), its type, the usage object it carries (message.usage
\* of message_start, usage of message_delta), its delta text
Payload(json, type, usage, text) ==
    [json |-> json, type |-> type, usage |-> usage, text |-> text]
Event(type, usage, text) == Payload("object", type, usage, text)
NoEvent == Event("", NoBlock, "")
MessageStart ==
    Event("message_start",
          UsageBlock({"input_tokens", "output_tokens",
                      "cache_read_input_tokens"}, 5, 1, 2, 0), "")
ContentBlockStart == Event("content_block_start", NoBlock, "")
ContentBlockDelta == Event("content_block_delta", NoBlock, "a")
MessageDeltaOut ==
    Event("message_delta", UsageBlock({"output_tokens"}, 0, 7, 0, 0), "")
MessageDeltaAll ==
    Event("message_delta",
          UsageBlock({"input_tokens", "output_tokens",
                      "cache_creation_input_tokens"}, 6, 8, 0, 3), "")
Done == Event("[DONE]", NoBlock, "")
AnthropicEvents ==
    {MessageStart, ContentBlockStart, ContentBlockDelta, MessageDeltaOut,
     MessageDeltaAll, Done}

\* Payloads outside the protocol: text that is not JSON, a JSON document
\* that is not an object, an object of a type the tracking does not know
InvalidJson == Payload("invalid", "", NoBlock, "")
NotAnObject == Payload("value", "", NoBlock, "")
UnknownType ==
    Event("future_event", UsageBlock({"output_tokens"}, 0, 9, 0, 0), "")

\* One line of the upstream body without its terminator: "event: <type>",
\* "data: <json>" or the empty line
Line(field, ev) == [field |-> field, ev |-> ev]
BlankLine == Line("", NoEvent)
EventLines(e) ==
    IF e.type = "[DONE]" THEN <<Line("data", e)>>
    ELSE <<Line("event", Event(e.type, NoBlock, "")), Line("data", e)>>

\* What response.content.readline() returns: a line with its terminator
ByteLine(l, eol) == [line |-> l, eol |-> eol]
Terminators == {"\n", "\r\n"}

\* The body an upstream sends for a sequence of events, every line ended
\* by eol and every event by an empty line ...
RECURSIVE Wire(_, _)
Wire(events, eol) ==
    IF events = <<>> THEN <<>>
    ELSE LET ls == EventLines(Head(events))
         IN  [i \in 1..Len(ls) |-> ByteLine(ls[i], eol)]
             \o <<ByteLine(BlankLine, eol)>> \o Wire(Tail(events), eol)

\* ... or cut before the empty line that ends the last event
UpstreamBytes(events, eol, truncated) ==
    LET w == Wire(events, eol)
    IN  IF truncated /\ w # <<>> THEN SubSeq(w, 1, Len(w) - 1) ELSE w

\* The event sequences of the Messages streaming protocol: message_start
\* opens the stream
EventSeqs ==
    {s \in UNION {[1..n -> AnthropicEvents] : n \in 0..MaxEvents} :
        \A i \in 2..Len(s) : s[i].type # "message_start"}

\* A chunk object of the LiteLLM stream: whether it has choices, the delta
\* content of its choice, whether the delta carries tool calls
Chunk(choices, content, tool_calls) ==
    [choices |-> choices, content |-> content, tool_calls |-> tool_calls]
LiteLLMChunks ==
    {Chunk(TRUE, "a", FALSE), Chunk(TRUE, "", TRUE), Chunk(FALSE, "", FALSE)}
ChunkSeqs == UNION {[1..n -> LiteLLMChunks] : n \in 0..MaxEvents}

\* accumulated_usage as _handle_streaming_request creates it
UsageData0 ==
    [input_tokens |-> 0, output_tokens |-> 0, cached_tokens |-> 0,
     cache_creation_tokens |-> 0, total_tokens |-> 0]

\* The locals of the generators of one streaming response.  st: idle,
\* reading (awaiting readline), yielded (suspended at the yield of an
\* event), flushing (suspended at the yield of the remaining lines),
\* relaying (stream_with_billing's loop), ended, aborted, failed.
\* exit: how the read loop was left (eof, error, done).
NoRelay ==
    [st |-> "idle", path |-> "", upstream |-> <<>>, pos |-> 0, exit |-> "",
     current_event_lines |-> <<>>, out |-> <<>>,
     accumulated_usage |-> UsageData0, content |-> <<>>, block |-> FALSE,
     collected_chunks |-> <<>>, reported |-> NoUsage]

\* '\n'.join(current_event_lines) + '\n\n'
event_text(lines) ==
    [i \in 1..Len(lines) |-> ByteLine(lines[i], "\n")]
    \o <<ByteLine(BlankLine, "\n")>>

\* yield: the chunk is handed to the response and sent to the client
YieldTo(out, chunk) == Append(out, chunk)

\* The first line of the event that starts with "data: "
data_line(lines) ==
    LET D == {i \in 1..Len(lines) : lines[i].field = "data"}
    IN  IF D = {} THEN NoEvent
        ELSE lines[CHOOSE i \in D : \A j \in D : i <= j].ev

\* message_start: the initial usage sets all four counters
message_start_usage(acc, u) ==
    IF u.has = {} THEN acc
    ELSE [acc EXCEPT
            !.input_tokens = Get(u, "input_tokens", 0),
            !.output_tokens = Get(u, "output_tokens", 0),
            !.cached_tokens = Get(u, "cache_read_input_tokens", 0),
            !.cache_creation_tokens =
                Get(u, "cache_creation_input_tokens", 0)]

message_delta_usage_sum(acc, u) ==
    IF u.has = {} THEN acc
    ELSE [acc EXCEPT
            !.input_tokens = @ + Get(u, "input_tokens", 0),
            !.output_tokens = @ + Get(u, "output_tokens", 0),
            !.cached_tokens = @ + Get(u, "cache_read_input_tokens", 0),
            !.cache_creation_tokens =
                @ + Get(u, "cache_creation_input_tokens", 0)]

\* message_delta: a counter the usage carries replaces the accumulated one
message_delta_usage(acc, u) ==
    IF u.has = {} THEN acc
    ELSE [acc EXCEPT
            !.input_tokens = Get(u, "input_tokens", @),
            !.output_tokens = Get(u, "output_tokens", @),
            !.cached_tokens = Get(u, "cache_read_input_tokens", @),
            !.cache_creation_tokens =
                Get(u, "cache_creation_input_tokens", @)]

tracking_raises_any(e) == e.json # "object"

\* The tracking raises an exception other than JSONDecodeError: the
\* document has no get method (line 128)
tracking_raises(e) == e.json = "value"

\* stream_generator's tracking of one forwarded event (lines 126-231); a
\* JSONDecodeError is logged and the event skipped
ProcessEvent(rl, e) ==
    IF e.json # "object" THEN rl
    ELSE IF e.type = "message_start" THEN
        [rl EXCEPT !.content = <<>>,
                   !.accumulated_usage = message_start_usage(@, e.usage)]
    ELSE IF e.type = "content_block_start" THEN
        [rl EXCEPT !.content = Append(@, <<>>), !.block = TRUE]
    ELSE IF e.type = "content_block_delta" THEN
        IF rl.block /\ rl.content # <<>>
        THEN [rl EXCEPT !.content[Len(rl.content)] = Append(@, e.text)]
        ELSE rl
    ELSE IF e.type = "message_delta" THEN
        [rl EXCEPT !.accumulated_usage = message_delta_usage(@, e.usage)]
    ELSE rl

\* The locals of the call made for another request
EarlierCall(r) == relay[IF r = 1 THEN 2 ELSE 1]

StreamLocals_shared(earlier) ==
    [NoRelay EXCEPT !.accumulated_usage = earlier.accumulated_usage,
                    !.current_event_lines = earlier.current_event_lines]

\* _handle_streaming_request creates accumulated_usage and
\* complete_message anew for every call (lines 69-85) and stream_generator
\* its line buffer (line 98); nothing of an earlier call is read
StreamLocals(earlier) == NoRelay

\* The bodies an upstream may send
Upstreams ==
    {UpstreamBytes(evs, eol, truncated) :
        evs \in EventSeqs, eol \in Terminators, truncated \in BOOLEAN}

\* AnthropicProvider.forward_messages(stream=True) returned its generator;
\* the response starts iterating it: session.post answers 200 and the
\* body is one of US, or another status and stream_generator raises
OpenAnthropicWith(r, US) ==
    /\ req[r].pc = "streaming"
    /\ get_provider_from_endpoint(req[r].endpoint) = "anthropic"
    /\ relay[r].st = "idle"
    /\ \E ok \in BOOLEAN, body \in US :
        IF ok
        THEN /\ relay' = [relay EXCEPT ![r] =
                    [StreamLocals(EarlierCall(r)) EXCEPT
                        !.st = "reading", !.path = "anthropic",
                        !.upstream = body]]
             /\ UNCHANGED req
        ELSE /\ relay' = [relay EXCEPT ![r] =
                    [NoRelay EXCEPT !.st = "failed", !.path = "anthropic"]]
             /\ req' = [req EXCEPT ![r] =
                    Finish([@ EXCEPT !.reason = "open_fail",
                                     !.upstream = @ + 1], 200)]
    /\ UNCHANGED <<accounts, apikeys, modelcosts, usagelogs, cache, channel,
                   adminOps, spent0, deactivated, raised, listener>>

OpenAnthropic(r) == OpenAnthropicWith(r, Upstreams)

\* stream_generator is exhausted: billing_wrapper's loop ends and it calls
\* process_usage_and_bill with usage_data.__dict__
Exhausted(r, rl) ==
    /\ relay' = [relay EXCEPT ![r] = [rl EXCEPT !.st = "ended"]]
    /\ req' = [req EXCEPT ![r] =
            EnterBilling([@ EXCEPT !.upstream = @ + 1],
                         UsageDataDict(rl.accumulated_usage))]

\* The read loop is left by break: the remaining lines are yielded as an
\* event (lines 244-246)
Break(r, rl, how) ==
    IF rl.current_event_lines # <<>>
    THEN /\ relay' = [relay EXCEPT ![r] =
                [rl EXCEPT !.exit = how, !.st = "flushing",
                    !.out = YieldTo(@, event_text(rl.current_event_lines))]]
         /\ UNCHANGED req
    ELSE Exhausted(r, [rl EXCEPT !.exit = how])

\* One pass of the read loop up to its next suspension (lines 100-113,
\* 234-237)
ReadLine(r) ==
    /\ req[r].pc = "streaming"
    /\ relay[r].st = "reading"
    /\ LET rl == relay[r]
       IN  IF rl.pos = Len(rl.upstream) THEN Break(r, rl, "eof")
           ELSE LET line == rl.upstream[rl.pos + 1].line
                    rd == [rl EXCEPT !.pos = @ + 1]
                IN  /\ UNCHANGED req
                    /\ relay' = [relay EXCEPT ![r] =
                        IF line.field # ""
                        THEN [rd EXCEPT !.current_event_lines =
                                            Append(@, line)]
                        ELSE IF rl.current_event_lines = <<>> THEN rd
                        ELSE [rd EXCEPT !.st = "yielded",
                                !.out = YieldTo(@,
                                    event_text(rl.current_event_lines))]]
    /\ UNCHANGED <<accounts, apikeys, modelcosts, usagelogs, cache, channel,
                   adminOps, spent0, deactivated, raised, listener>>

\* The generator resumes after the yield of an event (lines 115-234); an
\* exception of the tracking is caught by the read loop's handler, which
\* breaks with the event still in current_event_lines (lines 239-241)
Resume(r) ==
    /\ req[r].pc = "streaming"
    /\ relay[r].st = "yielded"
    /\ LET rl == relay[r]
           e == data_line(rl.current_event_lines)
       IN  IF e.type = "[DONE]" THEN Exhausted(r, [rl EXCEPT !.exit = "done"])
           ELSE IF tracking_raises(e) THEN Break(r, rl, "error")
           ELSE /\ relay' = [relay EXCEPT ![r] =
                        [ProcessEvent(rl, e) EXCEPT
                            !.st = "reading", !.current_event_lines = <<>>]]
                /\ UNCHANGED req
    /\ UNCHANGED <<accounts, apikeys, modelcosts, usagelogs, cache, channel,
                   adminOps, spent0, deactivated, raised, listener>>

\* The generator resumes after the yield of the remaining lines and ends
ResumeFlush(r) ==
    /\ req[r].pc = "streaming"
    /\ relay[r].st = "flushing"
    /\ Exhausted(r, relay[r])
    /\ UNCHANGED <<accounts, apikeys, modelcosts, usagelogs, cache, channel,
                   adminOps, spent0, deactivated, raised, listener>>

\* readline raises (the upstream connection fails): lines 239-241
ReadError(r) ==
    /\ req[r].pc = "streaming"
    /\ relay[r].st = "reading"
    /\ relay[r].pos < Len(relay[r].upstream)
    /\ Break(r, relay[r], "error")
    /\ UNCHANGED <<accounts, apikeys, modelcosts, usagelogs, cache, channel,
                   adminOps, spent0, deactivated, raised, listener>>

\* The client disconnects: the response task is cancelled and
\* billing_wrapper is closed inside its loop; the code after the loop is
\* not run
DisconnectAnthropic(r) ==
    /\ req[r].pc = "streaming"
    /\ relay[r].st \in {"reading", "yielded", "flushing"}
    /\ relay' = [relay EXCEPT ![r].st = "aborted"]
    /\ req' = [req EXCEPT ![r] =
            Finish([@ EXCEPT !.reason = "abort", !.upstream = @ + 1], 200)]
    /\ UNCHANGED <<accounts, apikeys, modelcosts, usagelogs, cache, channel,
                   adminOps, spent0, deactivated, raised, listener>>

\* The frames stream_with_billing makes: the JSON it rebuilds from a chunk
\* with choices (id, object, created, model, per choice index, delta
\* content and role, finish_reason), str(chunk) otherwise, and its own
\* "data: [DONE]" and stream_error frames
Frame(fmt, content, tool_calls) ==
    [fmt |-> fmt, content |-> content, tool_calls |-> tool_calls]
chunk_str(c) ==
    IF c.choices THEN Frame("data_json", c.content, FALSE)
    ELSE Frame("str", c.content, c.tool_calls)
DoneFrame == Frame("done", "", FALSE)
ErrorFrame == Frame("stream_error", "", FALSE)

\* LiteLLMClient.completion(stream=True) returned the chunk iterator and
\* the response starts iterating stream_with_billing
OpenLiteLLM(r) ==
    /\ req[r].pc = "streaming"
    /\ get_provider_from_endpoint(req[r].endpoint) = "openai"
    /\ relay[r].st = "idle"
    /\ \E chunks \in ChunkSeqs, u \in Usages :
        relay' = [relay EXCEPT ![r] =
            [NoRelay EXCEPT !.st = "relaying", !.path = "litellm",
                            !.upstream = chunks, !.reported = u]]
    /\ UNCHANGED <<accounts, apikeys, modelcosts, usagelogs, cache, channel,
                   req, adminOps, spent0, deactivated, raised, listener>>

\* One pass of stream_with_billing's loop (lines 41-81)
RelayChunk(r) ==
    /\ req[r].pc = "streaming"
    /\ relay[r].st = "relaying"
    /\ relay[r].pos < Len(relay[r].upstream)
    /\ LET c == relay[r].upstream[relay[r].pos + 1]
       IN  relay' = [relay EXCEPT
                ![r].pos = @ + 1,
                ![r].collected_chunks = Append(@, chunk_str(c)),
                ![r].out = YieldTo(@, chunk_str(c))]
    /\ UNCHANGED <<accounts, apikeys, modelcosts, usagelogs, cache, channel,
                   req, adminOps, spent0, deactivated, raised, listener>>

\* len(chunk_str.split()): "data: " and the json.dumps of chunk_data are 16
\* words and those of the content; the str() of a chunk without choices is
\* taken as one word
FrameWords(f) ==
    IF f.fmt = "data_json" THEN 16 + (IF f.content # "" THEN 1 ELSE 0) ELSE 1

\* len(''.join(collected_chunks).split()): every chunk_str ends in "\n\n"
RECURSIVE ContentWords(_)
ContentWords(chunks) ==
    IF chunks = <<>> THEN 0
    ELSE FrameWords(Head(chunks)) + ContentWords(Tail(chunks))

\* The finally block of stream_with_billing: _handle_post_stream_billing
\* over the collected chunks; stream_wrapper is set when a chunk had a
\* __self__ attribute (lines 44-45), and carries the usage the upstream
\* reported
PostStreamBilling(r, rl) ==
    /\ relay' = [relay EXCEPT ![r] = rl]
    /\ \E hasWrapper \in BOOLEAN :
        /\ hasWrapper => rl.collected_chunks # <<>>
        /\ req' = [req EXCEPT ![r] =
                EnterBilling(@, PostStreamUsage(hasWrapper, rl.reported,
                                    ContentWords(rl.collected_chunks)))]

\* The chunk iterator is exhausted: "data: [DONE]" is yielded (line 84)
EndLiteLLM(r) ==
    /\ req[r].pc = "streaming"
    /\ relay[r].st = "relaying"
    /\ relay[r].pos = Len(relay[r].upstream)
    /\ PostStreamBilling(r, [relay[r] EXCEPT !.st = "ended", !.exit = "eof",
                                !.out = YieldTo(@, DoneFrame)])
    /\ UNCHANGED <<accounts, apikeys, modelcosts, usagelogs, cache, channel,
                   adminOps, spent0, deactivated, raised, listener>>

\* The chunk iterator raises: the stream_error frame is yielded and the
\* exception re-raised (lines 86-95)
ErrorLiteLLM(r) ==
    /\ req[r].pc = "streaming"
    /\ relay[r].st = "relaying"
    /\ relay[r].pos < Len(relay[r].upstream)
    /\ PostStreamBilling(r, [relay[r] EXCEPT !.st = "ended", !.exit = "error",
                                !.out = YieldTo(@, ErrorFrame)])
    /\ UNCHANGED <<accounts, apikeys, modelcosts, usagelogs, cache, channel,
                   adminOps, spent0, deactivated, raised, listener>>

\* The client disconnects: stream_with_billing is closed at its yield and
\* its finally block runs
DisconnectLiteLLM(r) ==
    /\ req[r].pc = "streaming"
    /\ relay[r].st = "relaying"
    /\ PostStreamBilling(r, [relay[r] EXCEPT !.st = "aborted"])
    /\ UNCHANGED <<accounts, apikeys, modelcosts, usagelogs, cache, channel,
                   adminOps, spent0, deactivated, raised, listener>>

(* -------------------------------------------------- endpoint generation *)
\* The gate of the endpoint handlers, get_current_user
get_current_user(keyObj, acct) ==
    IF ~keyObj.found THEN Reject(401, "invalid_key")
    ELSE IF ~keyObj.is_active THEN Reject(403, "key_inactive")
    ELSE IF ~acct.found THEN Reject(500, "account_missing")
    ELSE IF ~acct.is_active THEN
        [Reject(403, "account_inactive") EXCEPT !.account = acct]
    ELSE IF is_over_budget(acct) THEN
        [Reject(429, "over_budget") EXCEPT !.account = acct]
    ELSE [pc |-> "l_handle", status |-> 0, reason |-> "", account |-> acct]

LegacyAuth(r) ==
    /\ req[r].pc = "new"
    /\ \A q \in Requests : q < r => req[q].pc # "new"
    /\ \E hdr \in Headers, rep \in Replicas :
        LET x == extract_api_key(hdr)
            rq == [Begin(req[r], rep, x.key) EXCEPT !.gen = "endpoint"]
            k == ReadThrough(cache[rep], <<"apikey", x.key>>, apikeys[x.key])
            uid == IF k.doc.found THEN k.doc.user_id ELSE "u2"
            a == ReadThrough(k.cache, <<"account", uid>>, accounts[uid])
        IN  IF ~x.ok
            THEN /\ req' = [req EXCEPT ![r] =
                              Finish([rq EXCEPT !.reason = "header"], 401)]
                 /\ cache' = cache
            ELSE /\ req' = [req EXCEPT ![r] =
                              ApplyGate(rq, k.doc, get_current_user(k.doc, a.doc))]
                 /\ cache' = [cache EXCEPT ![rep] =
                                IF k.doc.found /\ k.doc.is_active
                                THEN a.cache ELSE k.cache]
    /\ UNCHANGED <<relay, accounts, apikeys, modelcosts, usagelogs, channel,
                   adminOps, spent0, deactivated, raised, listener>>

\* endpoints/openai.py chat_completions and endpoints/anthropic.py
\* messages from their entry to the awaited forwarder.chat_completion
LegacyHandleWith(r, ES, MS) ==
    /\ req[r].pc = "l_handle"
    /\ \E ep \in ES, m \in MS :
        LET rq == [req[r] EXCEPT !.endpoint = ep,
                                 !.model = m,
                                 !.user_id = req[r].account.user_id]
            allowed == req[r].keyObj.allowed_models
            sent == [rq EXCEPT !.keyObj = NoRec, !.account = NoRec,
                               !.over0 = FALSE, !.fromStore = FALSE]
        IN  req' = [req EXCEPT ![r] =
                IF m = "" THEN
                    Finish([rq EXCEPT !.reason = "model_required"], 400)
                ELSE IF ~allowed.isNone /\ allowed.list # {}
                        /\ m \notin allowed.list THEN
                    Finish([rq EXCEPT !.reason = "model_denied"], 403)
                ELSE [sent EXCEPT !.pc = "l_upstream", !.upstream = @ + 1]]
    /\ UNCHANGED <<relay, accounts, apikeys, modelcosts, usagelogs, cache, channel,
                   adminOps, spent0, deactivated, raised, listener>>

LegacyHandle(r) ==
    LegacyHandleWith(r, {"/v1/chat/completions"}, ModelNames \cup {""})

\* chat_completions after the forwarder returned or raised
LegacyUpstream(r) ==
    /\ req[r].pc = "l_upstream"
    /\ \E u \in Usages, e \in UpstreamErrors \cup {""} :
        req' = [req EXCEPT ![r] =
            IF e # "" THEN [@ EXCEPT !.pc = "l_log", !.error = e]
            ELSE EnterBilling(@, u)]
    /\ UNCHANGED <<relay, accounts, apikeys, modelcosts, usagelogs, cache, channel,
                   adminOps, spent0, deactivated, raised, listener>>

\* operations AccountRepository.increment_spent: update_one({user_id},
\* {$inc: {spent_usd: amount}})
increment_spent(accts, uid, amount) ==
    IF accts[uid].found
    THEN [accts EXCEPT ![uid].spent_usd = @ + amount]
    ELSE accts

\* chat_completions lines 123-124
LegacySpend(r) ==
    /\ req[r].pc = "l_spend"
    /\ LET uid == req[r].user_id
           after == increment_spent(accounts, uid, req[r].cost)
       IN  /\ accounts' = after
           /\ req' = [req EXCEPT ![r].pc = "l_log",
                        ![r].debited = @ + (after[uid].spent_usd - accounts[uid].spent_usd),
                        ![r].debitInactive =
                            @ \/ (after # accounts /\ ~accounts[uid].is_active)]
    /\ UNCHANGED <<relay, apikeys, modelcosts, usagelogs, cache, channel,
                   adminOps, spent0, deactivated, raised, listener>>

\* _log_usage, the task chat_completions creates on both ways out
LegacyLog(r) ==
    /\ req[r].pc = "l_log"
    /\ usagelogs' = [usagelogs EXCEPT ![r] =
                        Append(@, UsageLogDoc(req[r], req[r].cost, req[r].error))]
    /\ req' = [req EXCEPT ![r] =
                 Finish(@, IF req[r].error = "" THEN 200 ELSE 500)]
    /\ UNCHANGED <<relay, accounts, apikeys, modelcosts, cache, channel,
                   adminOps, spent0, deactivated, raised, listener>>

(* ---------------------------------------------------------------- admin *)
Budgets == {0, 3}

\* admin update_account: AccountRepository.update_account ($set), then
\* invalidate_account; spent_usd is not among the fields it can set
UpdateAccount ==
    /\ adminOps < MaxAdminOps
    /\ \E f \in {"is_active", "budget_usd"}, b \in BOOLEAN, bud \in Budgets :
        /\ accounts' = [accounts EXCEPT !["u1"] =
              IF f = "is_active" THEN [@ EXCEPT !.is_active = b]
              ELSE [@ EXCEPT !.budget_usd = bud]]
        /\ accounts' # accounts
    /\ channel' = Publish(channel, <<"account", "u1">>)
    /\ adminOps' = adminOps + 1
    /\ deactivated' = (deactivated \/ ~accounts'["u1"].is_active)
    /\ raised' = (raised \/ accounts'["u1"].budget_usd > accounts["u1"].budget_usd)
    /\ UNCHANGED <<relay, apikeys, modelcosts, usagelogs, cache, req, spent0,
                   listener>>

\* admin update_api_key: ApiKeyRepository.update_api_key ($set), then
\* invalidate_api_key
UpdateApiKey ==
    /\ adminOps < MaxAdminOps
    /\ \E b \in BOOLEAN :
        /\ apikeys' = [apikeys EXCEPT !["k1"].is_active = b]
        /\ apikeys' # apikeys
    /\ channel' = Publish(channel, <<"apikey", "k1">>)
    /\ adminOps' = adminOps + 1
    /\ UNCHANGED <<relay, accounts, modelcosts, usagelogs, cache, req, spent0,
                   deactivated, raised, listener>>

(* ------------------------------------------------------- cache listener *)
HandleInvalidation_flush(c, msg) == [ck \in CacheKeys |-> NoRec]

\* What a publisher other than the gateway can put on the channel: bytes
\* that are not JSON, a JSON value that is not an object, bytes that are
\* not UTF-8, an object without type or key
Malformed ==
    {<<"invalid_json", "">>, <<"not_object", "">>, <<"undecodable", "">>,
     <<"no_key", "">>}

\* json.loads raises JSONDecodeError, which the inner except names; decode
\* raises UnicodeDecodeError and data.get AttributeError, which it does not
escapes_inner_except(msg) == msg[1] \in {"not_object", "undecodable"}

\* CacheManager._handle_invalidations for one received message
HandleInvalidation(c, msg) ==
    IF msg \in CacheKeys THEN [c EXCEPT ![msg] = NoRec] ELSE c

\* One turn of the listener's loop; an exception the inner except does not
\* name reaches the outer one, which logs it and lets the task return
Deliver(rep) ==
    /\ listener[rep] = "running"
    /\ channel[rep] # <<>>
    /\ cache' = [cache EXCEPT ![rep] = HandleInvalidation(@, Head(channel[rep]))]
    /\ channel' = [channel EXCEPT ![rep] = Tail(@)]
    /\ listener' = [listener EXCEPT ![rep] =
                      IF escapes_inner_except(Head(channel[rep]))
                      THEN "stopped" ELSE @]
    /\ UNCHANGED <<relay, accounts, apikeys, modelcosts, usagelogs, req, adminOps,
                   spent0, deactivated, raised>>

\* Pub/sub delivery is best-effort: a published message may never arrive.
\* (TTL expiry of an entry is a step of SpecTTL only; elsewhere an entry
\* stays until an invalidation for it is received.)
Lose(rep) ==
    /\ channel[rep] # <<>>
    /\ channel' = [channel EXCEPT ![rep] = Tail(@)]
    /\ UNCHANGED <<relay, accounts, apikeys, modelcosts, usagelogs, cache, req,
                   adminOps, spent0, deactivated, raised, listener>>

(* -------------------------------------------------------- specification *)
AllowedChoices == {AllowedNone, AllowedList({}), AllowedList({"m1"})}

Init ==
    /\ accounts = [u \in Users |->
            IF u = "u1" THEN AccountDoc("u1", TRUE, 3, 0) ELSE NoRec]
    /\ \E allowed \in AllowedChoices :
        apikeys = [k \in Keys |->
            IF k = "k1" THEN ApiKeyDoc("k1", "u1", TRUE, allowed)
            ELSE IF k = "k2" THEN ApiKeyDoc("k2", "u2", TRUE, AllowedNone)
            ELSE NoRec]
    /\ modelcosts = [m \in ModelNames |->
            IF m = "m1" THEN ModelCostDoc("m1", 1, 2, 1, 3) ELSE NoRec]
    /\ usagelogs = [r \in Requests |-> <<>>]
    /\ cache = [rep \in Replicas |-> [ck \in CacheKeys |-> NoRec]]
    /\ channel = [rep \in Replicas |-> <<>>]
    /\ req = [r \in Requests |-> InitReq]
    /\ adminOps = 0
    /\ spent0 = accounts["u1"].spent_usd
    /\ deactivated = ~accounts["u1"].is_active
    /\ raised = FALSE
    /\ relay = [r \in Requests |-> NoRelay]
    /\ listener = [rep \in Replicas |-> "running"]

Next ==
    \/ \E r \in Clients : Authenticate(r)
    \/ \E r \in Clients : KeyLoad(r)
    \/ \E r \in Clients : KeyLoaded(r)
    \/ \E r \in Clients : AcctLoad(r)
    \/ \E r \in Clients : AcctLoaded(r)
    \/ \E r \in Clients : Route(r)
    \/ \E r \in Clients : Upstream(r)
    \/ \E r \in Clients : StreamOpenAI(r)
    \/ \E r \in Clients : StreamAnthropic(r)
    \/ \E r \in Clients : BillPrice(r)
    \/ \E r \in Clients : BillSpend(r)
    \/ \E r \in Clients : BillInvalidate(r)
    \/ \E r \in Clients : BillLog(r)
    \/ \E r \in Clients : FailLog(r)
    \/ UpdateAccount
    \/ UpdateApiKey
    \/ \E rep \in Replicas : Deliver(rep)
    \/ \E rep \in Replicas : Lose(rep)

Spec == Init /\ [][Next]_vars

(* The ledger under concurrency: every request of Requests presents the    *)
(* valid key and is served on the unary chat path with a priced model.     *)
BearerK1 == [present |-> TRUE, bearer |-> TRUE, key |-> "k1"]
LedgerUsages == {u \in Usages : u.total_tokens > 0}

AuthenticateK1(r) == AuthenticateWith(r, {BearerK1})
RouteChat(r) == RouteWith(r, {"/v1/chat/completions"}, {"m1"}, {FALSE})
UpstreamOk(r) == UpstreamWith(r, LedgerUsages, {})

NextLedger ==
    \/ \E r \in Requests : AuthenticateK1(r)
    \/ \E r \in Requests : KeyLoad(r)
    \/ \E r \in Requests : KeyLoaded(r)
    \/ \E r \in Requests : AcctLoad(r)
    \/ \E r \in Requests : AcctLoaded(r)
    \/ \E r \in Requests : RouteChat(r)
    \/ \E r \in Requests : UpstreamOk(r)
    \/ \E r \in Requests : BillPrice(r)
    \/ \E r \in Requests : BillSpend(r)
    \/ \E r \in Requests : BillInvalidate(r)
    \/ \E r \in Requests : BillLog(r)
    \/ UpdateAccount
    \/ \E rep \in Replicas : Deliver(rep)

SpecLedger == Init /\ [][NextLedger]_vars

(* The endpoint generation, the handlers app.py mounts.                    *)
NextEndpoint ==
    \/ \E r \in Clients : LegacyAuth(r)
    \/ \E r \in Clients : LegacyHandle(r)
    \/ \E r \in Clients : LegacyUpstream(r)
    \/ \E r \in Clients : BillPrice(r)
    \/ \E r \in Clients : LegacySpend(r)
    \/ \E r \in Clients : LegacyLog(r)
    \/ UpdateAccount
    \/ \E rep \in Replicas : Deliver(rep)

SpecEndpoint == Init /\ [][NextEndpoint]_vars

(* Staleness bounded by the TTL: clients keep sending requests with the   *)
(* valid key (here without a model, so an admitted request ends with 400   *)
(* and bills nothing), every invalidation is lost, entries expire.         *)
ExpireEntry_keep(c, ck) == c

\* TTLCache drops an entry, once its ttl has elapsed, on the next access
ExpireEntry(c, ck) == [c EXCEPT ![ck] = NoRec]

\* An entry's ttl elapses
Expire(rep, ck) ==
    /\ GetFromCache(cache[rep], ck).found
    /\ cache' = [cache EXCEPT ![rep] = ExpireEntry(@, ck)]
    /\ UNCHANGED <<relay, accounts, apikeys, modelcosts, usagelogs, channel, req,
                   adminOps, spent0, deactivated, raised, listener>>

\* The client of a finished request sends its next one
NewRequest(r) ==
    /\ req[r].pc = "done"
    /\ req' = [req EXCEPT ![r] = InitReq]
    /\ UNCHANGED <<relay, accounts, apikeys, modelcosts, usagelogs, cache, channel,
                   adminOps, spent0, deactivated, raised, listener>>

RouteNoModel(r) == RouteWith(r, {"/v1/chat/completions"}, {""}, {FALSE})

GateStep(r) ==
    \/ KeyLoad(r)
    \/ KeyLoaded(r)
    \/ AcctLoad(r)
    \/ AcctLoaded(r)
    \/ RouteNoModel(r)

NextTTL ==
    \/ \E r \in Clients : NewRequest(r)
    \/ \E r \in Clients : AuthenticateK1(r)
    \/ \E r \in Clients : GateStep(r)
    \/ UpdateAccount
    \/ \E rep \in Replicas : Lose(rep)
    \/ \E rep \in Replicas, ck \in CacheKeys : Expire(rep, ck)

\* Store reads return and handlers resume; every entry's ttl runs out;
\* clients do send their next request
FairTTL ==
    /\ \A r \in Clients : WF_vars(GateStep(r))
    /\ \A r \in Clients : WF_vars(NewRequest(r))
    /\ \A rep \in Replicas, ck \in CacheKeys : WF_vars(Expire(rep, ck))

SpecTTL == Init /\ [][NextTTL]_vars /\ FairTTL

(* The admin surface with the gate: creations and price mutations.         *)
\* admin create_account: 400 when the user_id exists, else insert; the new
\* account starts with spent_usd 0
CreateAccount ==
    /\ adminOps < MaxAdminOps
    /\ \E uid \in Users, active \in BOOLEAN, bud \in Budgets :
        /\ ~accounts[uid].found
        /\ accounts' = [accounts EXCEPT ![uid] = AccountDoc(uid, active, bud, 0)]
    /\ adminOps' = adminOps + 1
    /\ UNCHANGED <<relay, apikeys, modelcosts, usagelogs, cache, channel, req,
                   spent0, deactivated, raised, listener>>

\* admin create_api_key: 404 when the user has no account, else insert a
\* freshly generated key
CreateApiKey ==
    /\ adminOps < MaxAdminOps
    /\ \E k \in Keys, uid \in Users, active \in BOOLEAN,
          allowed \in AllowedChoices :
        /\ ~apikeys[k].found
        /\ accounts[uid].found
        /\ apikeys' = [apikeys EXCEPT ![k] = ApiKeyDoc(k, uid, active, allowed)]
    /\ adminOps' = adminOps + 1
    /\ UNCHANGED <<relay, accounts, modelcosts, usagelogs, cache, channel, req,
                   spent0, deactivated, raised, listener>>

Rates == {1, 2}

\* The fields of the request body schema of POST /admin/costs
ModelCostCreateRequest ==
    {"model_name", "provider", "input_cost_per_million_tokens_usd",
     "output_cost_per_million_tokens_usd",
     "cached_read_cost_per_million_tokens_usd"}

\* The fields of the request the handler reads to build the ModelCost
ModelCostFieldsRead ==
    ModelCostCreateRequest \cup {"cached_write_cost_per_million_tokens_usd"}

\* admin create_or_update_model_cost with a body for model m: reading a
\* field the request lacks raises inside the try, and the handler answers
\* 500 before create_or_update_cost is called; otherwise upsert, then
\* invalidate_model_cost
PostModelCost(m, ri, ro) ==
    /\ adminOps < MaxAdminOps
    /\ IF ModelCostFieldsRead \subseteq ModelCostCreateRequest
       THEN /\ modelcosts' = [modelcosts EXCEPT
                                ![m] = ModelCostDoc(m, ri, ro, 1, 3)]
            /\ channel' = Publish(channel, <<"modelcost", m>>)
       ELSE UNCHANGED <<modelcosts, channel>>
    /\ adminOps' = adminOps + 1
    /\ UNCHANGED <<relay, accounts, apikeys, usagelogs, cache, req, spent0,
                   deactivated, raised, listener>>

UpsertModelCost ==
    \E m \in ModelNames, ri \in Rates, ro \in Rates : PostModelCost(m, ri, ro)

\* admin delete_model_cost: 404 when nothing was deleted, else
\* invalidate_model_cost
DeleteModelCost ==
    /\ adminOps < MaxAdminOps
    /\ \E m \in ModelNames :
        /\ modelcosts[m].found
        /\ modelcosts' = [modelcosts EXCEPT ![m] = NoRec]
        /\ channel' = Publish(channel, <<"modelcost", m>>)
    /\ adminOps' = adminOps + 1
    /\ UNCHANGED <<relay, accounts, apikeys, usagelogs, cache, req, spent0,
                   deactivated, raised, listener>>

NextAdmin ==
    \/ \E r \in Clients : Authenticate(r)
    \/ \E r \in Clients : GateStep(r)
    \/ CreateAccount
    \/ CreateApiKey
    \/ UpdateAccount
    \/ UpdateApiKey
    \/ UpsertModelCost
    \/ DeleteModelCost
    \/ \E rep \in Replicas : Deliver(rep)

SpecAdmin == Init /\ [][NextAdmin]_vars

\* The streaming pipeline of one client, from the gate to the usage log,
\* with the generators of the response taken step by step
Streamers == {1}
RouteStream(r) == RouteWith(r, Endpoints, {"m1"}, {TRUE})

NextStream ==
    \E r \in Streamers :
        \/ AuthenticateK1(r)
        \/ KeyLoad(r)
        \/ KeyLoaded(r)
        \/ AcctLoad(r)
        \/ AcctLoaded(r)
        \/ RouteStream(r)
        \/ UpstreamOk(r)
        \/ FailLog(r)
        \/ OpenAnthropic(r)
        \/ ReadLine(r)
        \/ Resume(r)
        \/ ResumeFlush(r)
        \/ ReadError(r)
        \/ DisconnectAnthropic(r)
        \/ OpenLiteLLM(r)
        \/ RelayChunk(r)
        \/ EndLiteLLM(r)
        \/ ErrorLiteLLM(r)
        \/ DisconnectLiteLLM(r)
        \/ BillPrice(r)
        \/ BillSpend(r)
        \/ BillInvalidate(r)
        \/ BillLog(r)

SpecStream == Init /\ [][NextStream]_vars

\* Two streaming requests given the same upstream body: the first opens
\* any body, the second is sent a copy of it; reads succeed
OpenReplay(r) ==
    /\ relay[1].st \notin {"idle", "failed"}
    /\ OpenAnthropicWith(r, {relay[1].upstream})

\* The bodies replayed: those whose events carry usage or end the stream
ReplayBodies ==
    {UpstreamBytes(evs, eol, truncated) :
        evs \in {s \in EventSeqs :
                    \A i \in 1..Len(s) : s[i].type \notin
                        {"content_block_start", "content_block_delta"}},
        eol \in Terminators, truncated \in BOOLEAN}

\* The first request's stream opens when both requests have been routed
OpenFirst(r) ==
    /\ \A q \in Clients : req[q].pc = "streaming"
    /\ OpenAnthropicWith(r, ReplayBodies)

RouteMessages(r) == RouteWith(r, {"/v1/messages"}, {"m1"}, {TRUE})

NextReplay ==
    \/ \E r \in Clients :
        \/ AuthenticateK1(r)
        \/ KeyLoad(r)
        \/ KeyLoaded(r)
        \/ AcctLoad(r)
        \/ AcctLoaded(r)
        \/ RouteMessages(r)
        \/ FailLog(r)
        \/ ReadLine(r)
        \/ Resume(r)
        \/ ResumeFlush(r)
    \/ OpenFirst(1)
    \/ OpenReplay(2)

SpecReplay == Init /\ [][NextReplay]_vars

\* One Anthropic stream whose body may carry payloads outside the protocol
MalformedEvents ==
    {MessageStart, MessageDeltaOut, InvalidJson, UnknownType, NotAnObject}
MalformedBodies ==
    {UpstreamBytes(evs, eol, truncated) :
        evs \in {s \in UNION {[1..n -> MalformedEvents] : n \in 0..MaxEvents} :
                    \A i \in 2..Len(s) : s[i].type # "message_start"},
        eol \in Terminators, truncated \in BOOLEAN}
OpenMalformed(r) == OpenAnthropicWith(r, MalformedBodies)

NextMalformed ==
    \E r \in Streamers :
        \/ AuthenticateK1(r)
        \/ KeyLoad(r)
        \/ KeyLoaded(r)
        \/ AcctLoad(r)
        \/ AcctLoaded(r)
        \/ RouteMessages(r)
        \/ FailLog(r)
        \/ OpenMalformed(r)
        \/ ReadLine(r)
        \/ Resume(r)
        \/ ResumeFlush(r)
        \/ ReadError(r)
        \/ DisconnectAnthropic(r)
        \/ BillPrice(r)
        \/ BillSpend(r)
        \/ BillInvalidate(r)
        \/ BillLog(r)

SpecMalformed == Init /\ [][NextMalformed]_vars

\* Unary requests whose upstream may answer with a non-2xx status
RouteUnary(r) == RouteWith(r, Endpoints, {"m1"}, {FALSE})
\* The usage objects an upstream may report: total_tokens is the upstream's
\* own figure, which need not be the sum of the two counts (a provider that
\* counts reasoning tokens only in the total)
ReportedUsages == Usages \cup {UsageDict(1, 1, 0, 0, 3)}
UpstreamAnswer(r) == UpstreamWith(r, ReportedUsages, UpstreamAnswers)

NextErrors ==
    \E r \in Clients :
        \/ AuthenticateK1(r)
        \/ KeyLoad(r)
        \/ KeyLoaded(r)
        \/ AcctLoad(r)
        \/ AcctLoaded(r)
        \/ RouteUnary(r)
        \/ UpstreamAnswer(r)
        \/ FailLog(r)
        \/ BillPrice(r)
        \/ BillSpend(r)
        \/ BillInvalidate(r)
        \/ BillLog(r)

SpecErrors == Init /\ [][NextErrors]_vars

\* Requests of both generations that name models of two providers, followed
\* up to the dispatch of the upstream call
GptModels == {"gpt-4"}
ClaudeModels == {"claude-3"}
RoutedModels == GptModels \cup ClaudeModels

\* LiteLLMForwarder: the model name is passed to litellm as it is, and
\* _setup_custom_api_base picks the api_base by the prefix of the name
forwarder_provider(m) ==
    IF m \in GptModels THEN "openai"
    ELSE IF m \in ClaudeModels THEN "anthropic"
    ELSE "openai"

\* The upstream the dispatched call of a request goes to: the provider of
\* get_provider_from_endpoint in route_request, the forwarder's in the
\* endpoint handlers
UpstreamOf(rq) ==
    IF rq.gen = "endpoint" THEN forwarder_provider(rq.model)
    ELSE get_provider_from_endpoint(rq.endpoint)

RouteRouted(r) == RouteWith(r, Endpoints, RoutedModels, BOOLEAN)
LegacyRouted(r) ==
    LegacyHandleWith(r, {"/v1/chat/completions", "/v1/messages"},
                     RoutedModels)

NextRouting ==
    \E r \in Clients :
        \/ AuthenticateK1(r)
        \/ KeyLoad(r)
        \/ KeyLoaded(r)
        \/ AcctLoad(r)
        \/ AcctLoaded(r)
        \/ RouteRouted(r)
        \/ LegacyAuth(r)
        \/ LegacyRouted(r)

SpecRouting == Init /\ [][NextRouting]_vars

(* ------------------------------------------------------ billing failure *)
BillingSteps == {"bill_price", "bill_spend", "bill_inval", "bill_log"}

\* An exception of process_usage_and_bill that reaches route_request
AfterBillingFailure_raise(rq) ==
    [rq EXCEPT !.pc = "fail_log", !.error = "Billing error"]

\* The except of _handle_non_streaming_response and of
\* _handle_anthropic_non_streaming_response: log, and return the response
AfterBillingFailure(rq) == Finish(rq, 200)

\* An await of process_usage_and_bill raises (the price lookup, the debit,
\* the publish or the log insert): its except writes a failed-request log,
\* unless that insert fails too, and re-raises to the unary handler
BillFailure(r) ==
    /\ req[r].pc \in BillingSteps
    /\ \E logged \in BOOLEAN :
        usagelogs' = [usagelogs EXCEPT ![r] =
                        IF logged
                        THEN Append(@, UsageLogDoc(req[r], 0, "Billing error"))
                        ELSE @]
    /\ req' = [req EXCEPT ![r] = AfterBillingFailure(@)]
    /\ UNCHANGED <<relay, accounts, apikeys, modelcosts, cache, channel,
                   adminOps, spent0, deactivated, raised, listener>>

NextBillFailure ==
    \/ NextErrors
    \/ \E r \in Clients : BillFailure(r)

SpecBillFailure == Init /\ [][NextBillFailure]_vars

(* ------------------------------------------------- invalidation channel *)
\* Redis delivers whatever any client publishes on the channel
ForeignPublish ==
    /\ \A rep \in Replicas : channel[rep] = <<>>
    /\ \E msg \in Malformed : channel' = Publish(channel, msg)
    /\ UNCHANGED <<relay, accounts, apikeys, modelcosts, usagelogs, cache, req,
                   adminOps, spent0, deactivated, raised, listener>>

NextChannel ==
    \/ \E r \in Clients : AuthenticateK1(r)
    \/ \E r \in Clients : GateStep(r)
    \/ UpdateAccount
    \/ UpdateApiKey
    \/ ForeignPublish
    \/ \E rep \in Replicas : Deliver(rep)

SpecChannel == Init /\ [][NextChannel]_vars

(* --------------------------------------------------------- cache reads *)
RoutePriced(r) == RouteWith(r, {"/v1/chat/completions"}, ModelNames, {FALSE})
UpstreamUsed(r) == UpstreamWith(r, {UsageDict(1, 1, 0, 0, 2)}, {})

\* The three cached lookups against a store where accounts and keys are
\* created and prices deleted, with entries expiring
NextLookup ==
    \/ \E r \in Clients :
        \/ Authenticate(r)
        \/ KeyLoad(r)
        \/ KeyLoaded(r)
        \/ AcctLoad(r)
        \/ AcctLoaded(r)
        \/ RoutePriced(r)
        \/ UpstreamUsed(r)
        \/ BillPrice(r)
    \/ CreateAccount
    \/ CreateApiKey
    \/ DeleteModelCost
    \/ \E rep \in Replicas : Deliver(rep)
    \/ \E rep \in Replicas, ck \in CacheKeys : Expire(rep, ck)

SpecLookup == Init /\ [][NextLookup]_vars

(* ------------------------------------------------------ provider router *)
\* A model name after lower(), as the sequence of its parts: each part is
\* one of the substrings get_provider_for_model searches for, or filler
\* text that holds none of them
OpenAIMarks == {"gpt-", "text-", "davinci", "curie", "babbage", "ada"}
AnthropicMarks == {"claude-", "anthropic"}
GoogleMarks == {"gemini", "palm", "vertex"}
CohereMarks == {"command", "cohere"}
NameParts ==
    OpenAIMarks \cup AnthropicMarks \cup GoogleMarks \cup CohereMarks
    \cup {"azure/", "3-sonnet"}
ProviderNames ==
    {<<a>> : a \in NameParts} \cup {<<a, b>> : a \in NameParts, b \in NameParts}

\* any(prefix in model_lower for prefix in marks)
name_holds(n, marks) == \E i \in 1..Len(n) : n[i] \in marks

\* model_lower.startswith(p)
name_startswith(n, p) == n[1] = p

\* ProviderRouter.get_provider_for_model; Settings has no
\* custom_llm_provider, so the last branch raises
get_provider_for_model(n) ==
    IF name_holds(n, OpenAIMarks) THEN "openai"
    ELSE IF name_holds(n, AnthropicMarks) THEN "anthropic"
    ELSE IF name_holds(n, GoogleMarks) THEN "google"
    ELSE IF name_holds(n, CohereMarks) THEN "cohere"
    ELSE IF name_startswith(n, "azure/") THEN "azure"
    ELSE "AttributeError"

\* A call of get_provider_for_model with a model name; the request keeps
\* the name and what the call gave
DetectProvider(r) ==
    /\ req[r].pc = "new"
    /\ \E n \in ProviderNames :
        req' = [req EXCEPT ![r] =
                  [InitReq EXCEPT !.pc = "detected", !.gen = "direct",
                                  !.model = n,
                                  !.reason = get_provider_for_model(n)]]
    /\ UNCHANGED <<relay, accounts, apikeys, modelcosts, usagelogs, cache,
                   channel, adminOps, spent0, deactivated, raised, listener>>

NextProvider == \E r \in Clients : DetectProvider(r)

SpecProvider == Init /\ [][NextProvider]_vars

(* --------------------------------------------------------------- claims *)
RECURSIVE SumOver(_, _)
SumOver(f, S) ==
    IF S = {} THEN 0
    ELSE LET x == CHOOSE y \in S : TRUE
         IN  f[x] + SumOver(f, S \ {x})

\* The cost each request's usage logs record
LoggedCost == [r \in Requests |->
    SumOver([i \in DOMAIN usagelogs[r] |-> usagelogs[r][i].cost_usd],
            DOMAIN usagelogs[r])]

AllSettled == \A r \in Requests : req[r].pc = "done"

\* C1: when all the concurrent requests against the account have settled and
\* the account stayed active throughout, the stored spent_usd is the initial
\* spent_usd plus the sum of the costs the requests were billed, whatever the
\* interleaving of their steps.
ThmC1 ==
    (AllSettled /\ ~deactivated) =>
        accounts["u1"].spent_usd = spent0 + SumOver(LoggedCost, Requests)

WitC1 ==
    /\ AllSettled /\ ~deactivated
    /\ \E q, r \in Requests :
        q # r /\ req[q].debited > 0 /\ req[r].debited > 0
    /\ accounts["u1"].spent_usd > accounts["u1"].budget_usd

\* C2: every request that passed the gate and was dispatched to a provider
\* ends with exactly one usage-log record persisted for it.
CexC2 ==
    \A r \in Requests :
        (req[r].pc = "done" /\ req[r].upstream >= 1) => Len(usagelogs[r]) = 1

\* C3: every dispatched request that reached its terminal disposition had
\* the billing ledger (process_usage_and_bill) invoked exactly once.
CexC3 ==
    \A r \in Requests :
        (req[r].pc = "done" /\ req[r].upstream >= 1 /\ req[r].status = 200)
            => req[r].billed = 1

\* C4: no debit issued by a request handler increases spent_usd of an
\* account whose stored is_active is false when the debit is applied.
CexC4 == \A r \in Requests : ~req[r].debitInactive

\* C5 as claimed: a request whose key or owning account is inactive in the
\* store when it is authenticated never debits, whatever the cache held.
CexC5 == \A r \in Requests : req[r].inactive0 => req[r].debited = 0

\* C5 as amended: a request for which get_authenticated_user read an
\* inactive key record or an inactive account record (the cached entry when
\* there is one, the store's record on a miss) is rejected and never debits
\* nor reaches a provider.
ThmC5 ==
    \A r \in Requests :
        req[r].sawInactive =>
            /\ req[r].pc = "done" /\ req[r].status = 403
            /\ req[r].debited = 0 /\ req[r].upstream = 0

WitC5 ==
    \E r \in Requests :
        /\ req[r].sawInactive /\ req[r].pc = "done"
        /\ req[r].reason = "key_inactive"
        /\ \E q \in Requests : req[q].debited > 0

\* C6: a request the authorization gate rejected (header, unknown key,
\* inactive key, inactive account, over budget, model not allowed) made no
\* upstream call and debited nothing.
GateReasons ==
    {"header", "invalid_key", "key_inactive", "account_missing",
     "account_inactive", "over_budget", "model_denied"}

ThmC6 ==
    \A r \in Requests :
        req[r].reason \in GateReasons =>
            req[r].upstream = 0 /\ req[r].debited = 0 /\ req[r].billed = 0

WitC6 ==
    \E r \in Requests :
        /\ req[r].pc = "done" /\ req[r].reason = "model_denied"
        /\ req[r].status = 500 /\ Len(usagelogs[r]) = 1

\* C7: with an active key and an active account, the gate answers 429
\* exactly when the account record it read has spent_usd >= budget_usd, and
\* admits otherwise; budget 0 with spent 0 is a 429.
ThmC7 ==
    \A r \in Requests :
        (req[r].account.found /\ req[r].account.is_active) =>
            ((req[r].pc = "done" /\ req[r].status = 429)
                <=> req[r].account.spent_usd >= req[r].account.budget_usd)

WitC7 ==
    \E r \in Requests :
        /\ req[r].pc = "done" /\ req[r].status = 429
        /\ req[r].account.found /\ req[r].account.is_active
        /\ req[r].account.budget_usd = 0 /\ req[r].account.spent_usd = 0

\* C8 as claimed: once a debit has left the account at or over its budget in
\* the store, every request that begins afterwards is rejected with 429,
\* makes no upstream call and debits nothing.
GatePcs == {"key_load", "key_loaded", "acct_load", "acct_loaded"}

CexC8 ==
    \A r \in Requests :
        (req[r].over0 /\ ~deactivated /\ ~raised /\ req[r].pc \notin GatePcs) =>
            /\ req[r].pc = "done" /\ req[r].status = 429
            /\ req[r].upstream = 0 /\ req[r].debited = 0

\* C8 as amended: once a debit has left the account at or over its budget in
\* the store and the budget is not raised, every request that begins
\* afterwards and whose gate loads the account from the store is rejected
\* (429, or 403 when the account has been deactivated), makes no upstream
\* call and debits nothing.
ThmC8 ==
    \A r \in Requests :
        (req[r].over0 /\ req[r].fromStore /\ ~raised) =>
            /\ req[r].pc = "done"
            /\ req[r].status = 429 \/ req[r].reason = "account_inactive"
            /\ req[r].upstream = 0 /\ req[r].debited = 0

WitC8 ==
    \E r \in Requests :
        /\ req[r].over0 /\ req[r].fromStore /\ ~raised
        /\ req[r].pc = "done" /\ req[r].status = 429
        /\ \E q \in Requests : req[q].debited > 0

\* C9: a request whose active key's user_id resolves to no account is
\* answered with status 500.
CexC9 ==
    \A r \in Requests :
        (req[r].pc = "done" /\ req[r].reason = "account_missing")
            => req[r].status = 500

\* C10: for an active key, the model-access check allows every model when
\* allowed_models is None or an empty list, and exactly the members of a
\* non-empty list.
CexC10 ==
    \A r \in Requests, m \in ModelNames :
        (req[r].keyObj.found /\ req[r].keyObj.is_active) =>
            (is_model_allowed(req[r].keyObj, m)
                <=> \/ req[r].keyObj.allowed_models.isNone
                    \/ req[r].keyObj.allowed_models.list = {}
                    \/ m \in req[r].keyObj.allowed_models.list)

\* C11: a request that names a model its key's allow-list does not permit
\* is answered by the proxy endpoint with status 403.
CexC11 ==
    \A r \in Requests :
        (req[r].pc = "done" /\ req[r].gen = "proxy"
         /\ req[r].reason = "model_denied") => req[r].status = 403

\* Every mutation of the account so far has had its invalidation published
\* and the replica has processed it
InvalidationsProcessed(rep, ck) ==
    /\ \A i \in DOMAIN channel[rep] : channel[rep][i] # ck
    /\ \A r \in Requests : req[r].pc # "bill_inval"

\* C12: once a replica has processed the invalidation published for a
\* mutated record, no later cache read of that identifier on the replica
\* returns the value from before the mutation, whatever cache-miss loads
\* were in flight.
CexC12 ==
    \A rep \in Replicas :
        LET ck == <<"account", "u1">>
        IN  (InvalidationsProcessed(rep, ck) /\ GetFromCache(cache[rep], ck).found)
                => GetFromCache(cache[rep], ck) = accounts["u1"]

\* C13: once an account has been set inactive for good, every replica
\* eventually rejects the requests on its keys with 403 and keeps rejecting
\* them, also when the invalidation was lost: the cached entry expires and
\* the account is reloaded from the store.
Rejecting ==
    \A r \in Requests :
        /\ req[r].pc # "route"
        /\ req[r].pc = "done" => req[r].status = 403

ThmC13 == <>[](~accounts["u1"].is_active) => <>[]Rejecting

WitC13 ==
    /\ ~accounts["u1"].is_active
    /\ \A rep \in Replicas : channel[rep] = <<>>
    /\ \E r, q \in Requests :
        /\ req[r].pc = "done" /\ req[r].status = 400
        /\ req[q].pc = "done" /\ req[q].status = 403 /\ req[q].fromStore

\* C14: every admin operation that mutates the store publishes one
\* invalidation message to the replicas' channel.
CexC14 ==
    [][adminOps' # adminOps =>
        \A rep \in Replicas : Len(channel'[rep]) = Len(channel[rep]) + 1]_vars

\* C15: processing one invalidation message removes at most the cache entry
\* the message names and leaves every other entry of the replica as it was.
ThmC15 ==
    [][\A rep \in Replicas :
        Len(channel'[rep]) < Len(channel[rep]) =>
            \A ck \in CacheKeys :
                ck # Head(channel[rep]) => cache'[rep][ck] = cache[rep][ck]]_vars

WitC15 ==
    \E r \in Requests :
        /\ req[r].pc = "route" /\ req[r].fromStore
        /\ ~GetFromCache(cache[req[r].replica],
                         <<"account", req[r].account.user_id>>).found
        /\ GetFromCache(cache[req[r].replica], <<"apikey", req[r].key>>).found

\* The events of an upstream body: the runs of non-empty lines that an
\* empty line ends (cur: the lines of the event being read)
RECURSIVE CompleteEvents(_, _)
CompleteEvents(bytes, cur) ==
    IF bytes = <<>> THEN <<>>
    ELSE IF Head(bytes).line.field # ""
         THEN CompleteEvents(Tail(bytes), Append(cur, Head(bytes).line))
    ELSE IF cur = <<>> THEN CompleteEvents(Tail(bytes), <<>>)
    ELSE <<cur>> \o CompleteEvents(Tail(bytes), <<>>)

\* The events a client reads from the chunks it was sent
DeliveredEvents(out) ==
    [i \in 1..Len(out) |->
        LET n == Len(out[i]) - 1 IN [j \in 1..n |-> out[i][j].line]]

Received(rl) == CompleteEvents(SubSeq(rl.upstream, 1, rl.pos), <<>>)

\* C16: at every point of an Anthropic stream, the events delivered to the
\* client are exactly the complete events received from the upstream, in
\* order, none dropped or duplicated.
CexC16 ==
    \A r \in Requests :
        relay[r].path = "anthropic" =>
            DeliveredEvents(relay[r].out) = Received(relay[r])

RECURSIVE Concat(_)
Concat(chunks) ==
    IF chunks = <<>> THEN <<>> ELSE Head(chunks) \o Concat(Tail(chunks))

\* C17: when an Anthropic stream has been relayed to its end, the
\* concatenation of the chunks yielded to the client equals the bytes of
\* the upstream body.
CexC17 ==
    \A r \in Requests :
        (relay[r].path = "anthropic" /\ relay[r].st = "ended"
            /\ relay[r].exit = "eof")
        => Concat(relay[r].out) = relay[r].upstream

\* The number of received frames whose content the generators hold
RECURSIVE HeldTexts(_)
HeldTexts(content) ==
    IF content = <<>> THEN 0
    ELSE Len(Head(content)) + HeldTexts(Tail(content))

HeldFrames(rl) ==
    Len(rl.collected_chunks) + HeldTexts(rl.content)
    + (IF rl.current_event_lines # <<>> THEN 1 ELSE 0)

\* C18: at every point of a streaming response the generators hold the
\* content of at most one received frame.
CexC18 == \A r \in Requests : HeldFrames(relay[r]) <= 1

\* The value claim C19 names for one counter: that of the last
\* message_delta carrying key, else that of message_start, 0 where
\* neither carries it
ExpectedTokens(evs, key) ==
    LET datas == [i \in 1..Len(evs) |-> data_line(evs[i])]
        D == {i \in 1..Len(evs) :
                datas[i].type = "message_delta" /\ key \in datas[i].usage.has}
        S == {i \in 1..Len(evs) :
                datas[i].type = "message_start" /\ key \in datas[i].usage.has}
    IN  IF D # {} THEN datas[CHOOSE i \in D : \A j \in D : j <= i].usage[key]
        ELSE IF S # {} THEN datas[CHOOSE i \in S : TRUE].usage[key]
        ELSE 0

\* C19: the usage billing_wrapper hands to the ledger when an Anthropic
\* stream ends has, for each of the four counters, the value of the last
\* message_delta that carried it, else the value of message_start; values
\* replace, they are not summed.
ThmC19 ==
    \A r \in Requests :
        (relay[r].path = "anthropic" /\ relay[r].st = "ended"
            /\ req[r].pc = "bill_price")
        => LET evs == Received(relay[r])
               u == req[r].usage
           IN  /\ u.input_tokens = ExpectedTokens(evs, "input_tokens")
               /\ u.output_tokens = ExpectedTokens(evs, "output_tokens")
               /\ u.cached_tokens =
                    ExpectedTokens(evs, "cache_read_input_tokens")
               /\ u.cache_creation_tokens =
                    ExpectedTokens(evs, "cache_creation_input_tokens")

WitC19 ==
    \E r \in Requests :
        /\ relay[r].path = "anthropic" /\ relay[r].st = "ended"
        /\ req[r].pc = "bill_price"
        /\ Len(Received(relay[r])) = 2
        /\ data_line(Received(relay[r])[1]) = MessageStart
        /\ data_line(Received(relay[r])[2]) = MessageDeltaOut
        /\ req[r].usage.input_tokens = 5
        /\ req[r].usage.output_tokens = 7

\* C20: a streaming request whose client disconnected mid-stream has, when
\* its handler is done, exactly one usage-log record, with error_message
\* "client_disconnect".
CexC20 ==
    \A r \in Requests :
        (relay[r].st = "aborted" /\ req[r].pc = "done")
        => /\ Len(usagelogs[r]) = 1
           /\ usagelogs[r][1].error_message = "client_disconnect"

Payloads(rl) == [i \in 1..Len(Received(rl)) |-> data_line(Received(rl)[i])]

\* At the end of a stream with such events, read to its end: every event
\* was forwarded and the usage handed to the ledger is that of the
\* message_start and message_delta events, those after the anomaly included
AnomaliesMetered ==
    \A r \in Requests :
        LET rl == relay[r]
            ps == Payloads(rl)
        IN  (/\ rl.path = "anthropic" /\ rl.st = "ended" /\ rl.exit = "eof"
             /\ req[r].pc = "bill_price"
             /\ \E i \in 1..Len(ps) : ps[i] \in {InvalidJson, UnknownType}
             /\ \A i \in 1..Len(ps) : ps[i] # NotAnObject)
            => /\ rl.pos = Len(rl.upstream)
               /\ DeliveredEvents(rl.out) =
                    CompleteEvents(rl.upstream, <<>>) \o
                        (IF rl.current_event_lines # <<>>
                         THEN <<rl.current_event_lines>> ELSE <<>>)
               /\ req[r].usage.input_tokens =
                    ExpectedTokens(Received(rl), "input_tokens")
               /\ req[r].usage.output_tokens =
                    ExpectedTokens(Received(rl), "output_tokens")
               /\ req[r].usage.cached_tokens =
                    ExpectedTokens(Received(rl), "cache_read_input_tokens")

\* The generator, resumed after it forwarded such an event, goes on reading
\* with the usage as it was
AnomalySkipped ==
    \A r \in Requests :
        (/\ relay[r].st = "yielded"
         /\ data_line(relay[r].current_event_lines)
                \in {InvalidJson, UnknownType}
         /\ relay'[r] # relay[r]
         /\ relay'[r].st # "aborted")
        => /\ relay[r].out[Len(relay[r].out)] =
                event_text(relay[r].current_event_lines)
           /\ relay'[r].st = "reading"
           /\ relay'[r].current_event_lines = <<>>
           /\ relay'[r].accumulated_usage = relay[r].accumulated_usage
           /\ relay'[r].out = relay[r].out
           /\ relay'[r].pos = relay[r].pos

\* C22: an event of an Anthropic stream whose payload is not valid JSON or
\* has an unknown type is forwarded, leaves the accumulated usage as it was,
\* and the events after it are still forwarded and metered.
ThmC22 == []AnomaliesMetered /\ [][AnomalySkipped]_vars

WitC22 ==
    \E r \in Requests :
        /\ relay[r].st = "ended" /\ relay[r].exit = "eof"
        /\ req[r].pc = "bill_price"
        /\ Payloads(relay[r]) = <<MessageStart, InvalidJson, MessageDeltaOut>>
        /\ Len(relay[r].out) = 3
        /\ req[r].usage.input_tokens = 5
        /\ req[r].usage.output_tokens = 7

\* spec: cost = input x input_rate + output x output_rate + cache_read x
\* cache_read_rate + cache_write x cache_write_rate, in micro-USD
FourTermCost(doc, u) ==
    IF ~doc.found THEN 0
    ELSE u.input_tokens * doc.input_rate + u.output_tokens * doc.output_rate
         + u.cached_tokens * doc.cached_rate
         + u.cache_creation_tokens * doc.cache_write_rate

\* C25: the cost the ledger computes for a request is the sum of the four
\* terms input, output, cache read and cache write, each at its rate in the
\* price record in force when billing runs.
CexC25 ==
    [][\A r \in Requests :
        (req[r].pc = "bill_price" /\ req'[r].pc # "bill_price")
        => req'[r].cost = FourTermCost(modelcosts[req[r].model], req[r].usage)
      ]_vars

\* The whitespace words of the concatenated text deltas of the chunks
\* relayed: the deltas of the model carry no whitespace
TextWords(chunks) ==
    IF \E i \in 1..Len(chunks) : chunks[i].content # "" THEN 1 ELSE 0

\* C23: the usage-log record of an OpenAI-family stream that ended without
\* a usage block from the upstream has input_tokens 0, output_tokens
\* floor(1.3 x the whitespace words of the concatenated text deltas),
\* is_cache_hit false, and a flag marking the charge as estimated.
CexC23 ==
    \A r \in Requests :
        LET rl == relay[r]
        IN  (/\ rl.path = "litellm" /\ rl.st = "ended" /\ rl.exit = "eof"
             /\ rl.reported = NoUsage
             /\ usagelogs[r] # <<>>)
            => LET log == usagelogs[r][Len(usagelogs[r])]
               IN  /\ log.input_tokens = 0
                   /\ log.output_tokens =
                        (13 * TextWords(rl.upstream)) \div 10
                   /\ log.is_cache_hit = FALSE
                   /\ "estimated" \in DOMAIN log

\* C24: when an OpenAI-family stream ends and the upstream reported a usage
\* block, the input and output tokens billed are the prompt and completion
\* counts of that block.
CexC24 ==
    \A r \in Requests :
        LET rl == relay[r]
        IN  (/\ rl.path = "litellm" /\ rl.st = "ended" /\ rl.exit = "eof"
             /\ rl.reported # NoUsage
             /\ req[r].pc = "bill_price")
            => /\ req[r].usage.input_tokens = rl.reported.input_tokens
               /\ req[r].usage.output_tokens = rl.reported.output_tokens

\* Pricing a request whose model has no price record gives cost 0 and
\* leads to the log without a debit
UnpricedCostsNothing ==
    \A r \in Requests :
        (/\ req[r].pc = "bill_price" /\ req[r].gen = "proxy"
         /\ ~modelcosts[req[r].model].found
         /\ req'[r].pc # "bill_price")
        => /\ req'[r].cost = 0
           /\ req'[r].pc = "bill_log"
           /\ req'[r].usage = req[r].usage
           /\ accounts' = accounts

\* The log of a request of cost 0 carries cost_usd 0 and the token counts
\* reported, and writing it leaves the accounts alone
ZeroCostLogged ==
    \A r \in Requests :
        (/\ req[r].pc = "bill_log" /\ req[r].cost = 0
         /\ req'[r].pc # "bill_log")
        => /\ accounts' = accounts
           /\ req[r].debited = 0
           /\ Len(usagelogs'[r]) = Len(usagelogs[r]) + 1
           /\ LET log == usagelogs'[r][Len(usagelogs'[r])]
              IN  /\ log.cost_usd = 0
                  /\ log.error_message = ""
                  /\ log.input_tokens = req[r].usage.input_tokens
                  /\ log.output_tokens = req[r].usage.output_tokens
                  /\ log.total_tokens = req[r].usage.total_tokens

\* C26: a request whose model has no price record is priced at 0, is not
\* debited, leaves spent_usd as it was, and still gets its usage-log
\* record, with cost_usd 0 and the token counts the upstream reported.
ThmC26 == [][UnpricedCostsNothing /\ ZeroCostLogged]_vars

WitC26 ==
    \E r \in Requests :
        /\ req[r].pc = "done" /\ req[r].gen = "proxy"
        /\ usagelogs[r] # <<>>
        /\ LET log == usagelogs[r][Len(usagelogs[r])]
           IN  /\ log.cost_usd = 0 /\ log.error_message = ""
               /\ log.input_tokens = 1 /\ log.output_tokens = 1
        /\ req[r].billed = 1 /\ req[r].debited = 0

\* The upstream call of a finished request failed: the awaited call raised
\* (the request was answered with an error status before any billing), or
\* the stream's POST was answered with a non-200 status
UpstreamFailed(r) ==
    /\ req[r].pc = "done" /\ req[r].gen = "proxy"
    /\ \/ req[r].reason = "open_fail"
       \/ req[r].upstream > 0 /\ req[r].billed = 0 /\ req[r].status >= 400

\* C27: a request whose upstream call failed has a usage-log record with
\* cost_usd 0 and an error_message, and has not changed spent_usd.
CexC27 ==
    \A r \in Requests :
        UpstreamFailed(r)
        => /\ req[r].debited = 0
           /\ Len(usagelogs[r]) = 1
           /\ usagelogs[r][1].cost_usd = 0
           /\ usagelogs[r][1].error_message # ""

\* C28: when the upstream answers with a non-2xx status, the client
\* receives that status.
CexC28 ==
    [][\A r \in Requests :
        (/\ req[r].pc = "fail_log" /\ req[r].error \in UpstreamAnswers
         /\ req'[r].pc = "done")
        => req'[r].status = UpstreamStatus(req[r].error)
      ]_vars

\* The debit of a positive cost that matches no active account changes no
\* account, and the ledger goes on to the log without publishing
UnmatchedDebit ==
    \A r \in Requests :
        (/\ req[r].pc = "bill_spend" /\ req[r].cost > 0
         /\ ~(accounts[req[r].user_id].found
               /\ accounts[req[r].user_id].is_active)
         /\ req'[r].pc # "bill_spend")
        => /\ accounts' = accounts
           /\ channel' = channel
           /\ req'[r].pc = "bill_log"
           /\ req'[r].cost = req[r].cost
           /\ req'[r].success = FALSE

\* The ledger at its log step appends the record and publishes nothing
LogAppended ==
    \A r \in Requests :
        (req[r].pc = "bill_log" /\ req'[r].pc # "bill_log")
        => /\ channel' = channel
           /\ accounts' = accounts
           /\ Len(usagelogs'[r]) = Len(usagelogs[r]) + 1
           /\ usagelogs'[r][Len(usagelogs'[r])].user_id = req[r].user_id

\* C29: when the conditional debit of a positive cost matches no active
\* account, spent_usd is left as it was, no account invalidation is
\* published, and the usage-log record of the request is still appended.
ThmC29 == [][UnmatchedDebit /\ LogAppended]_vars

WitC29 ==
    \E r \in Requests :
        /\ req[r].pc = "done" /\ req[r].gen = "proxy"
        /\ req[r].billed = 1 /\ req[r].debited = 0
        /\ usagelogs[r] # <<>>
        /\ usagelogs[r][Len(usagelogs[r])].cost_usd > 0
        /\ ~accounts["u1"].is_active

\* C30: a request that completed without error has a single usage-log
\* record, whose cost_usd is the amount by which the request raised
\* spent_usd.
CexC30 ==
    \A r \in Requests :
        (/\ req[r].pc = "done" /\ req[r].gen = "proxy"
         /\ req[r].billed = 1 /\ req[r].status = 200)
        => /\ Len(usagelogs[r]) = 1
           /\ usagelogs[r][1].cost_usd = req[r].debited

\* C31: no step of a client request, of the ledger or of an admin account
\* update takes the stored spent_usd of an account to a smaller value.
ThmC31 ==
    [][\A u \in Users :
        (accounts[u].found /\ accounts'[u].found)
        => accounts'[u].spent_usd >= accounts[u].spent_usd
      ]_vars

WitC31 ==
    /\ adminOps > 0
    /\ accounts["u1"].found
    /\ accounts["u1"].spent_usd > spent0
    /\ \E r \in Requests : req[r].pc = "done" /\ req[r].debited > 0

\* C32: every usage-log record has total_tokens = input_tokens +
\* output_tokens.
CexC32 ==
    \A r \in Requests :
        \A i \in 1..Len(usagelogs[r]) :
            usagelogs[r][i].total_tokens =
                usagelogs[r][i].input_tokens + usagelogs[r][i].output_tokens

\* C33: every usage-log record with a cache-read token count above 0 has
\* is_cache_hit true.
CexC33 ==
    \A r \in Requests :
        \A i \in 1..Len(usagelogs[r]) :
            usagelogs[r][i].cached_tokens > 0 => usagelogs[r][i].is_cache_hit

\* spec: the endpoint determines the upstream
ClaimedUpstream(ep) ==
    IF ep \in {"/v1/chat/completions", "/v1/responses"} THEN "openai"
    ELSE "anthropic"

\* C34: the upstream a dispatched completion request goes to is the one of
\* its endpoint, whatever model the body names.
CexC34 ==
    \A r \in Requests :
        req[r].pc \in {"upstream", "streaming", "l_upstream"}
        => UpstreamOf(req[r]) = ClaimedUpstream(req[r].endpoint)

\* spec: the provider the beginning of a model name stands for
ClaimedProvider(n) ==
    IF name_startswith(n, "gpt-") THEN "openai"
    ELSE IF name_startswith(n, "claude-") THEN "anthropic"
    ELSE IF name_startswith(n, "gemini") THEN "google"
    ELSE IF name_startswith(n, "command") THEN "cohere"
    ELSE "any"

\* C35: get_provider_for_model gives "openai" for every name beginning
\* with "gpt-", "anthropic" for every name beginning with "claude-",
\* "google" for every name beginning with "gemini" and "cohere" for every
\* name beginning with "command", whatever follows.
CexC35 ==
    \A r \in Requests :
        (req[r].pc = "detected" /\ ClaimedProvider(req[r].model) # "any")
        => req[r].reason = ClaimedProvider(req[r].model)

\* C36: a post of a price record for a model leaves the store holding one
\* record for that model with the posted values, whatever it held before.
CexC36 ==
    [][\A m \in ModelNames, ri \in Rates, ro \in Rates :
          PostModelCost(m, ri, ro)
          => /\ modelcosts'[m].found
             /\ modelcosts'[m].input_rate = ri
             /\ modelcosts'[m].output_rate = ro]_vars

\* The entry a lookup leaves in a replica's cache c under ck when it got doc
Cached(c, ck, doc) == IF doc.found THEN [c EXCEPT ![ck] = doc] ELSE c

\* A lookup whose cache has the entry uses it without a store read; one
\* whose cache lacks it reads the store
HitServed(r) ==
    LET rep == req'[r].replica
        kk == <<"apikey", req'[r].key>>
        ak == <<"account", req'[r].keyObj.user_id>>
    IN  /\ (req[r].pc = "new" /\ req'[r].pc = "key_load")
            => ~cache[rep][kk].found
        /\ (req[r].pc = "new" /\ req'[r].pc \in {"acct_load", "route"})
            => cache[rep][kk].found /\ req'[r].keyObj = cache[rep][kk]
        /\ (req[r].pc = "new" /\ req'[r].pc = "done")
            => req'[r].reason # "invalid_key"
        /\ (req[r].pc \in {"new", "key_loaded"} /\ req'[r].pc = "acct_load")
            => ~cache'[rep][ak].found
        /\ (req[r].pc \in {"new", "key_loaded"} /\ req'[r].pc = "route")
            => cache'[rep][ak].found /\ req'[r].account = cache'[rep][ak]

\* The store read of a miss gives the store's record of that moment
MissReadsStore(r) ==
    /\ (req[r].pc = "key_load" /\ req'[r].pc = "key_loaded")
        => req'[r].loaded = apikeys[req[r].key]
    /\ (req[r].pc = "acct_load" /\ req'[r].pc = "acct_loaded")
        => req'[r].loaded = accounts[req[r].keyObj.user_id]

\* What was read is cached when it is a record, and nothing is when it is
\* not; no other entry changes
ReadCached(r) ==
    LET rep == req[r].replica
        pk == <<"modelcost", req[r].model>>
        price == IF cache[rep][pk].found THEN cache[rep][pk]
                 ELSE modelcosts[req[r].model]
    IN  /\ (req[r].pc = "key_loaded" /\ req'[r].pc # "key_loaded")
            => cache'[rep] =
                 Cached(cache[rep], <<"apikey", req[r].key>>, req[r].loaded)
        /\ (req[r].pc = "acct_loaded" /\ req'[r].pc # "acct_loaded")
            => cache'[rep] =
                 Cached(cache[rep], <<"account", req[r].keyObj.user_id>>,
                        req[r].loaded)
        /\ (req[r].pc = "bill_price" /\ req'[r].pc # "bill_price")
            => /\ cache'[rep] = Cached(cache[rep], pk, price)
               /\ req'[r] = AfterPrice(req[r], price)

\* No replica holds an entry for a key or an account the store lacks, so
\* nothing stands between a record that is created and the next lookup
NothingCachedForAbsent ==
    \A rep \in Replicas :
        /\ \A k \in Keys :
            cache[rep][<<"apikey", k>>].found => apikeys[k].found
        /\ \A u \in Users :
            cache[rep][<<"account", u>>].found => accounts[u].found

CexC38 == \A rep \in Replicas : listener[rep] = "running"

\* A request in billing either goes on billing or returns 200, and a step
\* of it appends at most one usage-log record
BillingReturnsResponse ==
    \A r \in Requests :
        req[r].pc \in BillingSteps
        => /\ req'[r].pc \in BillingSteps \cup {"done"}
           /\ req'[r].pc = "done" => req'[r].status = 200
           /\ Len(usagelogs'[r]) <= Len(usagelogs[r]) + 1

\* A request that reached billing has one usage-log record at most
OneLogPerBilling ==
    \A r \in Requests :
        req[r].billed > 0 => Len(usagelogs[r]) <= req[r].billed

\* C39: on the unary paths a failure inside billing leaves the client its
\* response with status 200, and route_request writes no failed-request
\* log of its own for the request.
ThmC39 == []OneLogPerBilling /\ [][BillingReturnsResponse]_vars

\* A billed unary request returned 200 although its billing failed: its
\* one record is the failed-request log process_usage_and_bill wrote
WitC39 ==
    \E r \in Requests :
        /\ req[r].pc = "done"
        /\ req[r].status = 200
        /\ req[r].billed = 1
        /\ Len(usagelogs[r]) = 1
        /\ usagelogs[r][1].error_message = "Billing error"

====
